---- MODULE Spec2Model ----
(***************************************************************************)
(* A model of the trainer-card recognition pipeline of                     *)
(* trainer_card_parser.py: the validator gate, the field extractors, the   *)
(* badge scorer and parse_trainer_card that chains them.                   *)
(*                                                                         *)
(* Text is a sequence of one-character strings.  The regular expressions   *)
(* of the source are kept as syntax trees and run by a backtracking        *)
(* matcher that follows the priority order of Python's re module.          *)
(***************************************************************************)
EXTENDS Integers, Sequences, FiniteSets, TLC

VARIABLES
    pc,        \* position in the running operation
    image,     \* what the collaborators answer for the image being parsed
    text,      \* the fused OCR text
    scores,    \* the eight slot scores of the badge strip
    region,    \* the card region handed to the OCR fuser and the badge scorer
    result,    \* the result dictionary assembled by parse_trainer_card
    ret,       \* the value returned by a directly called function
    outcome,   \* how parse_trainer_card ended
    parser,    \* the fields of the TrainerCardParser object
    store,     \* the data of the TrainerDataStore object
    bot,       \* the RosemaryBot object and its running coroutines
    channel,   \* the messages posted in the Discord channel, oldest first
    log,       \* the calls made so far, with what they returned
    disk       \* the files: the data _load_data would read from the JSON file
               \* of the store, and the temporary files of the downloads

vars ==
    <<pc, image, text, scores, region, result, ret, outcome, parser, store,
      bot, channel, log, disk>>

\* what the operations of the parser leave alone
others == <<store, bot, channel, log, disk>>

(***************************************************************************)
(* Characters                                                              *)
(***************************************************************************)
UpperLetters ==
    <<"A","B","C","D","E","F","G","H","I","J","K","L","M",
      "N","O","P","Q","R","S","T","U","V","W","X","Y","Z">>

LowerLetters ==
    <<"a","b","c","d","e","f","g","h","i","j","k","l","m",
      "n","o","p","q","r","s","t","u","v","w","x","y","z">>

DigitChars == <<"0","1","2","3","4","5","6","7","8","9">>

UpperSet == {UpperLetters[i] : i \in 1..Len(UpperLetters)}

LowerSet == {LowerLetters[i] : i \in 1..Len(LowerLetters)}

\* [A-Z] under re.IGNORECASE
AZ == UpperSet \cup LowerSet

\* \d
Digit == {DigitChars[i] : i \in 1..Len(DigitChars)}

\* \s
Space == {" ", "\n", "\t"}

\* the characters \b treats as part of a word
WordChar == AZ \cup {"é", "É"} \cup Digit \cup {"_"}

\* str.upper() of one character
Upper(c) ==
    IF c = "é" THEN "É"
    ELSE IF c \in LowerSet
    THEN UpperLetters[CHOOSE i \in 1..Len(LowerLetters) : LowerLetters[i] = c]
    ELSE c

\* str.lower() of one character
Lower(c) ==
    IF c = "É" THEN "é"
    ELSE IF c \in UpperSet
    THEN LowerLetters[CHOOSE i \in 1..Len(UpperLetters) : UpperLetters[i] = c]
    ELSE c

\* str.upper()
UpperStr(s) == [i \in 1..Len(s) |-> Upper(s[i])]

\* int() of one decimal digit
DigitVal(c) == (CHOOSE i \in 1..Len(DigitChars) : DigitChars[i] = c) - 1

\* int() of a string of decimal digits
RECURSIVE ToInt(_)
ToInt(s) ==
    IF s = <<>> THEN 0
    ELSE 10 * ToInt(SubSeq(s, 1, Len(s) - 1)) + DigitVal(s[Len(s)])

(***************************************************************************)
(* Regular expressions: syntax                                             *)
(***************************************************************************)
Inf == 0 - 1

\* one character of the set S
In(S) == [k |-> "set", s |-> S]

\* a literal character; under IGNORECASE it matches in either case
Ch(c, ic) == In(IF ic THEN {c, Upper(c), Lower(c)} ELSE {c})

\* r1 r2 ... rn
Cat(rs) == [k |-> "cat", rs |-> rs]

\* a literal word
Lit(w, ic) == Cat([i \in 1..Len(w) |-> Ch(w[i], ic)])

\* r1|r2|...|rn
Alt(rs) == [k |-> "alt", rs |-> rs]

\* r{lo,hi}, greedy
Rep(r, lo, hi) == [k |-> "rep", r |-> r, lo |-> lo, hi |-> hi]

\* r+
Plus(r) == Rep(r, 1, Inf)

\* r*
Star(r) == Rep(r, 0, Inf)

\* r?
Opt(r) == Rep(r, 0, 1)

\* (r), capture group n
Grp(n, r) == [k |-> "grp", n |-> n, r |-> r]

\* \b
WordB == [k |-> "wb"]

(***************************************************************************)
(* Regular expressions: the matcher.  A match state is the position of the *)
(* next unread character and the spans of the groups captured so far.  Run *)
(* gives the match states a regex can end in from a state, in the order    *)
(* the backtracking matcher tries them, so the first one is the match.     *)
(***************************************************************************)
NoGroups == <<<<0, 0>>, <<0, 0>>>>

IsWordAt(t, p) == p >= 1 /\ p <= Len(t) /\ t[p] \in WordChar

\* the first position from p on whose character is not in S
RunEnd(t, p, S) ==
    LET stops == {q \in p..(Len(t) + 1) : q = Len(t) + 1 \/ t[q] \notin S}
    IN  CHOOSE q \in stops : \A x \in stops : q <= x

\* a greedy repetition of one character class: the longest run first, then
\* one character less at a time, down to the least number of rounds
RunRepSet(r, t, st) ==
    LET n   == RunEnd(t, st.p, r.r.s) - st.p
        top == IF r.hi = Inf \/ n < r.hi THEN n ELSE r.hi
    IN  [i \in 1..(top - r.lo + 1) |-> [st EXCEPT !.p = st.p + top - i + 1]]

RECURSIVE Run(_, _, _), RunCat(_, _, _, _), RunAlt(_, _, _, _),
          RunRep(_, _, _, _), RunEach(_, _, _, _, _), RepEach(_, _, _, _, _, _)

Run(r, t, st) ==
    CASE r.k = "set" ->
            IF st.p <= Len(t) /\ t[st.p] \in r.s
            THEN <<[st EXCEPT !.p = @ + 1]>> ELSE <<>>
      [] r.k = "wb" ->
            IF IsWordAt(t, st.p - 1) # IsWordAt(t, st.p) THEN <<st>> ELSE <<>>
      [] r.k = "cat" -> RunCat(r.rs, 1, t, st)
      [] r.k = "alt" -> RunAlt(r.rs, 1, t, st)
      [] r.k = "rep" ->
            IF r.r.k = "set" THEN RunRepSet(r, t, st) ELSE RunRep(r, 0, t, st)
      [] r.k = "grp" ->
            LET ends == Run(r.r, t, st)
            IN  [i \in 1..Len(ends) |->
                    [ends[i] EXCEPT !.g[r.n] = <<st.p, ends[i].p>>]]

\* the rest rs[i..] of a concatenation, from state st
RunCat(rs, i, t, st) ==
    IF i > Len(rs) THEN <<st>>
    ELSE RunEach(rs, i, t, Run(rs[i], t, st), 1)

\* continue the concatenation from each state of sts in turn
RunEach(rs, i, t, sts, j) ==
    IF j > Len(sts) THEN <<>>
    ELSE RunCat(rs, i + 1, t, sts[j]) \o RunEach(rs, i, t, sts, j + 1)

\* the alternatives rs[i..], left to right
RunAlt(rs, i, t, st) ==
    IF i > Len(rs) THEN <<>>
    ELSE Run(rs[i], t, st) \o RunAlt(rs, i + 1, t, st)

\* a greedy repetition after n rounds: one more round first, stopping second
RunRep(r, n, t, st) ==
    (IF r.hi = Inf \/ n < r.hi
     THEN RepEach(r, n, t, st, Run(r.r, t, st), 1) ELSE <<>>)
    \o (IF n >= r.lo THEN <<st>> ELSE <<>>)

RepEach(r, n, t, st, sts, j) ==
    IF j > Len(sts) THEN <<>>
    ELSE (IF sts[j].p > st.p THEN RunRep(r, n + 1, t, sts[j]) ELSE <<>>)
         \o RepEach(r, n, t, st, sts, j + 1)

\* the states a match starting at position p can end in
MatchAt(r, t, p) == Run(r, t, [p |-> p, g |-> NoGroups])

\* re.search(r, t): the match at the leftmost position that has one
Search(r, t) ==
    LET starts == {p \in 1..(Len(t) + 1) : MatchAt(r, t, p) # <<>>}
    IN  IF starts = {} THEN [found |-> FALSE]
        ELSE LET p == CHOOSE x \in starts : \A y \in starts : x <= y
                 m == MatchAt(r, t, p)[1]
             IN  [found |-> TRUE, s |-> p, e |-> m.p, g |-> m.g]

\* match.group(n)
Group(m, t, n) == SubSeq(t, m.g[n][1], m.g[n][2] - 1)

\* match.group(0)
Group0(m, t) == SubSeq(t, m.s, m.e - 1)

\* needle in t, for plain strings
Contains(t, needle) ==
    \E p \in 1..(Len(t) - Len(needle) + 1) :
        SubSeq(t, p, p + Len(needle) - 1) = needle

(***************************************************************************)
(* String helpers of the field extractors                                  *)
(***************************************************************************)
\* a class written inside [...] under re.IGNORECASE
CiSet(S) == UNION {{c, Upper(c), Lower(c)} : c \in S}

\* [:\s]+
LabelSep == Plus(In({":"} \cup Space))

\* str.strip()
RECURSIVE LStrip(_), RStrip(_)
LStrip(s) == IF s # <<>> /\ Head(s) \in Space THEN LStrip(Tail(s)) ELSE s

RStrip(s) ==
    IF s # <<>> /\ s[Len(s)] \in Space THEN RStrip(SubSeq(s, 1, Len(s) - 1)) ELSE s

Strip(s) == RStrip(LStrip(s))

\* the first word of s (s starts with a non-space character)
RECURSIVE WordLen(_, _)
WordLen(s, n) ==
    IF n < Len(s) /\ s[n + 1] \notin Space THEN WordLen(s, n + 1) ELSE n

\* str.split(): the words between runs of whitespace
RECURSIVE Split(_)
Split(s) ==
    LET u == LStrip(s)
    IN  IF u = <<>> THEN <<>>
        ELSE LET n == WordLen(u, 0)
             IN  <<SubSeq(u, 1, n)>> \o Split(SubSeq(u, n + 1, Len(u)))

\* ' '.join(words)
RECURSIVE Join(_)
Join(words) ==
    IF words = <<>> THEN <<>>
    ELSE IF Len(words) = 1 THEN words[1]
    ELSE words[1] \o <<" ">> \o Join(Tail(words))

\* re.sub(r'[^A-Z0-9\s.]', '', name, flags=re.IGNORECASE)
NameChars == AZ \cup Digit \cup Space \cup {"."}

KeepNameChars(s) == SelectSeq(s, LAMBDA c : c \in NameChars)

\* re.sub(r'\b0([A-Z])', r'O\1', name, flags=re.IGNORECASE): a match is two
\* characters wide and starts on a "0", so no two matches overlap
FixLeadingZero(s) ==
    [i \in 1..Len(s) |->
        IF s[i] = "0" /\ ~IsWordAt(s, i - 1) /\ i < Len(s) /\ s[i + 1] \in AZ
        THEN "O" ELSE s[i]]

\* re.sub(r'([A-Z])0\b', r'\1O', name, flags=re.IGNORECASE)
FixTrailingZero(s) ==
    [i \in 1..Len(s) |->
        IF s[i] = "0" /\ i > 1 /\ s[i - 1] \in AZ /\ ~IsWordAt(s, i + 1)
        THEN "O" ELSE s[i]]

(***************************************************************************)
(* validate_trainer_card                                                   *)
(***************************************************************************)
\* the header pattern alone, without the patterns for its misreads
exact_header_pattern ==
    <<Cat(<<Lit(<<"T","R","A","I","N","E","R">>, TRUE), Plus(In(Space)),
            Lit(<<"C","A","R","D">>, TRUE)>>)>>

trainer_card_patterns ==
    <<Cat(<<Lit(<<"T","R","A","I","N","E","R">>, TRUE), Plus(In(Space)),
            Lit(<<"C","A","R","D">>, TRUE)>>),
      Cat(<<Lit(<<"T","R","A","I">>, TRUE), In(CiSet({"N","M"})),
            Lit(<<"E","R">>, TRUE), Plus(In(Space)),
            Lit(<<"C","A","R","D">>, TRUE)>>),
      Cat(<<Lit(<<"T","R","A","I","N","E","R">>, TRUE), Plus(In(Space)),
            Ch("C", TRUE), In(CiSet({"A","H"})), Lit(<<"R","D">>, TRUE)>>),
      Cat(<<Lit(<<"T","R","A">>, TRUE), In(CiSet({"I","!"})),
            Lit(<<"N","E","R">>, TRUE), Plus(In(Space)),
            Lit(<<"C","A","R","D">>, TRUE)>>)>>

\* [:\s]
LabelEnd == In({":"} \cup Space)

\* r'NAME[:\s]'
name_indicator == Cat(<<Lit(<<"N","A","M","E">>, TRUE), LabelEnd>>)

\* r'BADGE[S]?[:\s]'
badges_indicator ==
    Cat(<<Lit(<<"B","A","D","G","E">>, TRUE), Opt(In(CiSet({"S"}))), LabelEnd>>)

\* r'TIME[:\s]'
time_indicator == Cat(<<Lit(<<"T","I","M","E">>, TRUE), LabelEnd>>)

\* r'TINE[:\s]'
tine_indicator == Cat(<<Lit(<<"T","I","N","E">>, TRUE), LabelEnd>>)

\* POK[EéÉe]
PokPrefix == Cat(<<Lit(<<"P","O","K">>, TRUE), In(CiSet({"E","é","É","e"}))>>)

\* r'POK[EéÉe](?:DEX|NEX|DE|eDE|keDE)'
DexSuffixes ==
    Alt(<<Lit(<<"D","E","X">>, TRUE), Lit(<<"N","E","X">>, TRUE),
          Lit(<<"D","E">>, TRUE), Lit(<<"e","D","E">>, TRUE),
          Lit(<<"k","e","D","E">>, TRUE)>>)

pokedex_indicator == Cat(<<PokPrefix, DexSuffixes>>)

\* the count with TIME and its TINE misread counted as two fields
field_indicators_tine_apart(t) ==
      (IF Search(name_indicator, t).found THEN 1 ELSE 0)
    + (IF Search(badges_indicator, t).found THEN 1 ELSE 0)
    + (IF Search(time_indicator, t).found THEN 1 ELSE 0)
    + (IF Search(tine_indicator, t).found THEN 1 ELSE 0)
    + (IF Search(pokedex_indicator, t).found THEN 1 ELSE 0)

\* the number of field indicators found (each counted once)
field_indicators(t) ==
      (IF Search(name_indicator, t).found THEN 1 ELSE 0)
    + (IF Search(badges_indicator, t).found THEN 1 ELSE 0)
    + (IF Search(time_indicator, t).found \/ Search(tine_indicator, t).found
       THEN 1 ELSE 0)
    + (IF Search(pokedex_indicator, t).found THEN 1 ELSE 0)

\* some pattern of the list matches somewhere in t
AnyMatch(ps, t) == \E i \in 1..Len(ps) : Search(ps[i], t).found

MinIndicators == 3

validate_trainer_card(t) ==
    IF AnyMatch(trainer_card_patterns, t) THEN TRUE
    ELSE field_indicators(t) >= MinIndicators

(***************************************************************************)
(* extract_name                                                            *)
(***************************************************************************)
UNKNOWN == <<"U","N","K","N","O","W","N">>

\* ([A-Z0-9\s.]+)
NameGroup == Grp(1, Plus(In(NameChars)))

name_patterns ==
    <<Cat(<<Lit(<<"N","A","M","E">>, TRUE), LabelSep, NameGroup>>),
      Cat(<<Lit(<<"W","A","M","E">>, TRUE), LabelSep, NameGroup>>),
      Cat(<<Lit(<<"N","A","N","E">>, TRUE), LabelSep, NameGroup>>)>>

garbage_words ==
    {<<"M","O","N","E","Y">>, <<"E","M","O","N","E","Y">>, <<"O","M">>,
     <<"T","T">>, <<"A">>, <<"P","O","K","E","D","E","X">>,
     <<"T","I","M","E">>, <<"B","A","D","G","E","S">>, <<"I","D">>,
     <<"I","D","N","o">>}

\* re.match(r'^[A-Z0-9.]+$', word, re.IGNORECASE)
LooksLikeName(word) ==
    word # <<>> /\ \A i \in 1..Len(word) : word[i] \in AZ \cup Digit \cup {"."}

\* the loop over words: stop at the first garbage word, keep name-like words
RECURSIVE clean_words(_)
clean_words(words) ==
    IF words = <<>> THEN <<>>
    ELSE IF UpperStr(Head(words)) \in garbage_words THEN <<>>
    ELSE (IF LooksLikeName(Head(words)) THEN <<Head(words)>> ELSE <<>>)
         \o clean_words(Tail(words))

\* the cleaned name of one match's group 1
CleanName(captured) ==
    LET joined == Join(Split(Strip(captured)))
        fixed  == FixTrailingZero(FixLeadingZero(KeepNameChars(joined)))
    IN  Strip(Join(clean_words(Split(fixed))))

RECURSIVE NameFrom(_, _)
NameFrom(t, i) ==
    IF i > Len(name_patterns) THEN UNKNOWN
    ELSE LET m == Search(name_patterns[i], t)
         IN  IF m.found /\ CleanName(Group(m, t, 1)) # <<>>
             THEN CleanName(Group(m, t, 1))
             ELSE NameFrom(t, i + 1)

extract_name(t) == NameFrom(t, 1)

(***************************************************************************)
(* extract_time                                                            *)
(***************************************************************************)
NoTime == <<"0", ":", "0", "0">>

KnownBadTime == <<"5", ":", "4", "9">>

\* (\d{1,3})[:;.\s]+(\d{2})
TimeDigits ==
    <<Grp(1, Rep(In(Digit), 1, 3)), Plus(In({":", ";", "."} \cup Space)),
      Grp(2, Rep(In(Digit), 2, 2))>>

\* label[:\s]+(\d{1,3})[:;.\s]+(\d{2})
TimePattern(label) == Cat(<<Lit(label, TRUE), LabelSep>> \o TimeDigits)

time_patterns ==
    <<TimePattern(<<"T","I","M","E">>), TimePattern(<<"T","I","N","E">>),
      TimePattern(<<"T","T","I","M","E">>), TimePattern(<<"S","E","E">>),
      TimePattern(<<"T","T","M","E">>)>>

\* r'\b(\d{1,3}):(\d{2})\b'
fallback_pattern ==
    Cat(<<WordB, Grp(1, Rep(In(Digit), 1, 3)), In({":"}),
          Grp(2, Rep(In(Digit), 2, 2)), WordB>>)

MaxMinutes == 60

MaxHours == 1000

\* f"{hours}:{minutes}"
FormatTime(hours, minutes) == hours \o <<":">> \o minutes

\* the fallback: the first bare digits:digits token of the text
TimeFallback(t) ==
    LET m == Search(fallback_pattern, t)
    IN  IF m.found
           /\ ToInt(Group(m, t, 2)) < MaxMinutes
           /\ 0 < ToInt(Group(m, t, 1))
           /\ ToInt(Group(m, t, 1)) < MaxHours
        THEN FormatTime(Group(m, t, 1), Group(m, t, 2))
        ELSE NoTime

RECURSIVE TimeFrom(_, _)
TimeFrom(t, i) ==
    IF i > Len(time_patterns) THEN TimeFallback(t)
    ELSE LET m == Search(time_patterns[i], t)
         IN  IF m.found
                /\ ToInt(Group(m, t, 2)) < MaxMinutes
                /\ ToInt(Group(m, t, 1)) < MaxHours
             THEN FormatTime(Group(m, t, 1), Group(m, t, 2))
             ELSE TimeFrom(t, i + 1)

extract_time(t) ==
    IF Contains(t, <<"T","I","M","E"," ","s","t","i","h","e">>)
       \/ Contains(t, <<"T","I","M","E"," ","s","t">>)
    THEN KnownBadTime
    ELSE TimeFrom(t, 1)

(***************************************************************************)
(* extract_pokedex                                                         *)
(***************************************************************************)
\* POK[EéÉe](?:DEX|NEX)[:\s]+
DexLabel ==
    <<PokPrefix, Alt(<<Lit(<<"D","E","X">>, TRUE), Lit(<<"N","E","X">>, TRUE)>>),
      LabelSep>>

\* r'POK[EéÉe](?:DEX|NEX)[:\s]+\|[\s|]*\|'
bar_pattern ==
    Cat(DexLabel \o <<In({"|"}), Star(In(Space \cup {"|"})), In({"|"})>>)

\* r'POK[EéÉe](?:DEX|NEX)[:\s]+1[\]\)]'
bracket_pattern == Cat(DexLabel \o <<In({"1"}), In({"]", ")"})>>)

\* r'POK[EéÉe](?:DEX|NEX)[:\s]+a(\d)'
a_pattern == Cat(DexLabel \o <<Ch("a", TRUE), Grp(1, In(Digit))>>)

\* r'POK[EéÉe](?:DEX|NEX)[:\s]+([5S])([5S])'
s_pattern ==
    Cat(DexLabel \o <<Grp(1, In(CiSet({"5", "S"}))), Grp(2, In(CiSet({"5", "S"})))>>)

\* r'[oO]?POK[EéÉe](?:DEX|NEX|DE|eDE|keDE)[\*:\s]+3\s*[6Gb]'
three_six_pattern ==
    Cat(<<Opt(In(CiSet({"o", "O"}))), PokPrefix, DexSuffixes,
          Plus(In({"*", ":"} \cup Space)), In({"3"}), Star(In(Space)),
          In(CiSet({"6", "G", "b"}))>>)

\* (\d(?:\s*\d)*)
DigitRun == Grp(1, Cat(<<In(Digit), Star(Cat(<<Star(In(Space)), In(Digit)>>))>>))

\* label[:\s]+(\d(?:\s*\d)*)
NumberPattern(suffix) == Cat(<<PokPrefix, Lit(suffix, TRUE), LabelSep, DigitRun>>)

pokedex_patterns ==
    <<NumberPattern(<<"D","E","X">>), NumberPattern(<<"N","E","X">>),
      Cat(<<Lit(<<"P","O","K","E","D","E","X">>, TRUE), LabelSep, DigitRun>>)>>

MaxPokedex == 999

\* the number of "|" in s
RECURSIVE CountBars(_)
CountBars(s) ==
    IF s = <<>> THEN 0
    ELSE (IF Head(s) = "|" THEN 1 ELSE 0) + CountBars(Tail(s))

\* int('1' * n)
RECURSIVE Repunit(_)
Repunit(n) == IF n = 0 THEN 0 ELSE 10 * Repunit(n - 1) + 1

\* re.sub(r'\s+', '', s)
DropSpace(s) == SelectSeq(s, LAMBDA c : c \notin Space)

\* the loop over the regular number patterns
RECURSIVE NumberFrom(_, _)
NumberFrom(t, i) ==
    IF i > Len(pokedex_patterns) THEN 0
    ELSE LET m == Search(pokedex_patterns[i], t)
         IN  IF m.found /\ ToInt(DropSpace(Group(m, t, 1))) <= MaxPokedex
             THEN ToInt(DropSpace(Group(m, t, 1)))
             ELSE NumberFrom(t, i + 1)

\* the cascade with the bracket rule tried before the bar rule
extract_pokedex_bracket_first(t) ==
    LET bars == Search(bar_pattern, t)
        a    == Search(a_pattern, t)
    IN  IF Search(bracket_pattern, t).found THEN 11
        ELSE IF bars.found /\ CountBars(Group0(bars, t)) >= 2
        THEN Repunit(CountBars(Group0(bars, t)))
        ELSE IF a.found THEN ToInt(<<"4">> \o Group(a, t, 1))
        ELSE IF Search(s_pattern, t).found THEN 55
        ELSE IF Search(three_six_pattern, t).found THEN 36
        ELSE NumberFrom(t, 1)

extract_pokedex(t) ==
    LET bars == Search(bar_pattern, t)
        a    == Search(a_pattern, t)
    IN  IF bars.found /\ CountBars(Group0(bars, t)) >= 2
        THEN Repunit(CountBars(Group0(bars, t)))
        ELSE IF Search(bracket_pattern, t).found THEN 11
        ELSE IF a.found THEN ToInt(<<"4">> \o Group(a, t, 1))
        ELSE IF Search(s_pattern, t).found THEN 55
        ELSE IF Search(three_six_pattern, t).found THEN 36
        ELSE NumberFrom(t, 1)

(***************************************************************************)
(* find_trainer_card_region.  The image-processing collaborator answers    *)
(* with the bounding box of the largest green contour and of the largest   *)
(* bright contour (<<>> when there is no contour).  A box is <<x, y, w, h>>.*)
(***************************************************************************)
NoRegion == <<>>

\* 1.2 < w / h < 3.0 and w > 100 and h > 100
ColourGate(box) ==
    /\ box[4] > 0
    /\ 12 * box[4] < 10 * box[3]
    /\ box[3] < 3 * box[4]
    /\ box[3] > 100
    /\ box[4] > 100

\* 1.4 < w / h < 2.0 and w > 800 and h > 300
BrightGate(box) ==
    /\ box[4] > 0
    /\ 14 * box[4] < 10 * box[3]
    /\ box[3] < 2 * box[4]
    /\ box[3] > 800
    /\ box[4] > 300

\* the brightness pass tried on an image of any size
find_trainer_card_region_any_size(img) ==
    IF img.green # NoRegion /\ ColourGate(img.green) THEN img.green
    ELSE IF img.bright # NoRegion /\ BrightGate(img.bright)
    THEN img.bright
    ELSE NoRegion

find_trainer_card_region(img) ==
    IF img.green # NoRegion /\ ColourGate(img.green) THEN img.green
    ELSE IF (img.w > 1500 \/ img.h > 800)
            /\ img.bright # NoRegion /\ BrightGate(img.bright)
    THEN img.bright
    ELSE NoRegion

(***************************************************************************)
(* count_badges: slot metrics, slot scores, and the scan for the cut point *)
(***************************************************************************)
NumSlots == 8

\* the score of one slot from its pixel statistics
SlotScore(m) ==
      (IF m.sat < 40 THEN 4 ELSE IF m.sat < 70 THEN 2
       ELSE IF m.sat > 100 THEN 0 - 4 ELSE 0)
    + (IF m.std > 50 THEN 3 ELSE IF m.std > 35 THEN 2
       ELSE IF m.std < 20 THEN 0 - 2 ELSE 0)
    + (IF m.min < 30 THEN 3 ELSE IF m.min < 70 THEN 2
       ELSE IF m.min < 100 THEN 1 ELSE 0)
    + (IF m.mean < 150 THEN 2 ELSE IF m.mean < 180 THEN 1
       ELSE IF m.mean > 200 THEN 0 - 1 ELSE 0)

\* the scores of the eight slots
SlotScores(strip) == [i \in 1..NumSlots |-> SlotScore(strip[i])]

RECURSIVE Sum(_)
Sum(s) == IF s = <<>> THEN 0 ELSE Head(s) + Sum(Tail(s))

RECURSIVE Max(_)
Max(s) ==
    IF Len(s) = 1 THEN s[1]
    ELSE LET m == Max(Tail(s)) IN IF Head(s) >= m THEN Head(s) ELSE m

\* the pass threshold chosen from the maximum score
Threshold(max_score) ==
    IF max_score >= 8 THEN 5 ELSE IF max_score >= 5 THEN 3 ELSE 2

\* the mean test passing only below 0
AvgNegative(s) == Sum(s) < 0

\* sum(remaining_after) / len(remaining_after) <= 0, for a non-empty list
AvgNonPositive(s) == Sum(s) <= 0

\* the loop with a slot passing only above the threshold
RECURSIVE ScanStrict(_, _, _, _)
ScanStrict(vs, i, badge_count, threshold) ==
    IF i > Len(vs) THEN badge_count
    ELSE IF vs[i] <= 0 THEN badge_count
    ELSE IF i = 1
    THEN IF vs[i] > threshold
         THEN ScanStrict(vs, i + 1, badge_count + 1, threshold)
         ELSE badge_count
    ELSE LET score_drop == vs[i - 1] - vs[i]
         IN  IF score_drop >= 3 THEN badge_count
             ELSE IF vs[i] <= threshold THEN badge_count
             ELSE IF /\ score_drop >= 2
                     /\ i < Len(vs)
                     /\ AvgNonPositive(SubSeq(vs, i + 1, Len(vs)))
             THEN badge_count + 1
             ELSE ScanStrict(vs, i + 1, badge_count + 1, threshold)

\* the loop over the slots from slot i on (slots are numbered from 1 here),
\* with badge_count badges counted so far
RECURSIVE Scan(_, _, _, _)
Scan(vs, i, badge_count, threshold) ==
    IF i > Len(vs) THEN badge_count
    ELSE IF vs[i] <= 0 THEN badge_count
    ELSE IF i = 1
    THEN IF vs[i] >= threshold
         THEN Scan(vs, i + 1, badge_count + 1, threshold)
         ELSE badge_count
    ELSE LET score_drop == vs[i - 1] - vs[i]
         IN  IF score_drop >= 3 THEN badge_count
             ELSE IF vs[i] < threshold THEN badge_count
             ELSE IF /\ score_drop >= 2
                     /\ i < Len(vs)
                     /\ AvgNonPositive(SubSeq(vs, i + 1, Len(vs)))
             THEN badge_count + 1
             ELSE Scan(vs, i + 1, badge_count + 1, threshold)

\* the count with every slot judged on its own against the threshold
CountPassingSlots(vs) ==
    IF \A i \in 1..Len(vs) : vs[i] = 0 THEN 0
    ELSE IF Max(vs) <= 0 THEN 0
    ELSE Cardinality({i \in 1..Len(vs) : vs[i] >= Threshold(Max(vs))})

\* the badge count from the eight slot scores
CountFromScores(vs) ==
    IF \A i \in 1..Len(vs) : vs[i] = 0 THEN 0
    ELSE IF Max(vs) <= 0 THEN 0
    ELSE Scan(vs, 1, 0, Threshold(Max(vs)))

\* int(n * 0.86), int(n * 0.94), int(n * 0.07), int(n * 0.93) for a size n
\* below 5000: the float product truncated, which is one less than the
\* integer quotient for 0.94 at 2150, 4300 and 4350
Scaled(n, percent) ==
    IF percent = 94 /\ n \in {2150, 4300, 4350}
    THEN (n * percent) \div 100 - 1
    ELSE (n * percent) \div 100

\* 1.2 < w / h < 3.0 and w > 100: the bright area looks like a card
InnerGate(box) ==
    /\ box[4] > 0
    /\ 12 * box[4] < 10 * box[3]
    /\ box[3] < 3 * box[4]
    /\ box[3] > 100

\* the card count_badges works on: for a region wider than 500 or taller
\* than 400, the largest bright area inside it when that looks like a card
ActualCardRegion(img, box) ==
    IF (box[3] > 500 \/ box[4] > 400)
       /\ img.inner # NoRegion /\ InnerGate(img.inner)
    THEN <<box[1] + img.inner[1], box[2] + img.inner[2],
           img.inner[3], img.inner[4]>>
    ELSE box

\* the length of the slice a[from:to] of an axis of n pixels (from, to >= 0)
SliceLen(n, from, to) ==
    LET lo == IF from < n THEN from ELSE n
        hi == IF to < n THEN to ELSE n
    IN  IF hi > lo THEN hi - lo ELSE 0

\* badge_region, the row of the eight badge slots: the bounds asked for, and
\* the rows and columns the slice of the image has
BadgeRegion(img, box) ==
    LET card == ActualCardRegion(img, box)
        gba  == card[3] <= 250 /\ card[4] <= 170
        badge_y_start == card[2] + (IF gba THEN 131 ELSE Scaled(card[4], 86))
        badge_y_end   == card[2] + (IF gba THEN 147 ELSE Scaled(card[4], 94))
        badge_x_start == card[1] + (IF gba THEN 17 ELSE Scaled(card[3], 7))
        badge_x_end   == card[1] + (IF gba THEN 225 ELSE Scaled(card[3], 93))
    IN  [y_start |-> badge_y_start, y_end |-> badge_y_end,
         x_start |-> badge_x_start, x_end |-> badge_x_end,
         rows |-> SliceLen(img.h, badge_y_start, badge_y_end),
         cols |-> SliceLen(img.w, badge_x_start, badge_x_end)]

\* the scores with a slot of no pixels scored from the strip all the same
BadgeScoresUnguarded(img, box) == SlotScores(img.strip)

\* the eight slot scores: a slot of no pixels (segment_width 0) scores 0
BadgeScores(img, box) ==
    IF BadgeRegion(img, box).cols \div NumSlots = 0
    THEN [i \in 1..NumSlots |-> 0]
    ELSE SlotScores(img.strip)

count_badges(img, box) ==
    LET badge_region == BadgeRegion(img, box)
    IN  IF badge_region.rows * badge_region.cols = 0 THEN 0
        ELSE CountFromScores(BadgeScores(img, box))

(***************************************************************************)
(* Inputs.  A fused text is the concatenation of fragments of OCR output;  *)
(* image.frags lists the fragments (by number) the text is made of.        *)
(***************************************************************************)
MaxFrags == 3

RECURSIVE Concat(_, _)
Concat(table, ids) ==
    IF ids = <<>> THEN <<>> ELSE table[Head(ids)] \o Concat(table, Tail(ids))

\* the sequences of at most n numbers in 1..k
SeqsUpTo(k, n) == UNION {[1..m -> 1..k] : m \in 0..n}

\* fragments for validate_trainer_card: four headers in tolerant spellings, a
\* header with two misreads, the field labels, and noise
ValidateFrags ==
    <<<<"T","R","A","I","N","E","R"," ","C","A","R","D","\n">>,
      <<"t","r","a","i","m","e","r"," ","c","a","r","d","\n">>,
      <<"T","R","A","I","N","E","R","\t","C","H","R","D","\n">>,
      <<"T","r","a","!","n","e","r"," "," ","C","a","r","d","\n">>,
      <<"T","R","A","I","M","E","R"," ","C","H","R","D","\n">>,
      <<"N","A","M","E",":"," ","A","S","H","\n">>,
      <<"B","A","D","G","E","S"," ","\n">>,
      <<"T","I","M","E"," ","2",":","1","5","\n">>,
      <<"T","I","N","E",":"," ","2",".","1","5","\n">>,
      <<"P","o","K","e","N","E","X"," ","1","1","\n">>,
      <<"M","O","N","E","Y"," ","$","1","2","0","0","\n">>>>

\* fragments for extract_pokedex: one label occurrence for each rule of the
\* cascade (bars three times, the general pattern three times), and noise
PokedexFrags ==
    <<<<"P","O","K","E","D","E","X",":"," ","|","|","\n">>,
      <<"P","o","K","e","N","E","X"," ","|"," ","|"," ","|","\n">>,
      <<"P","O","K","é","D","E","X",":"," ","|","|","|","|","\n">>,
      <<"P","O","K","E","D","E","X",":"," ","1","]","\n">>,
      <<"P","O","K","E","D","E","X",":"," ","a","9","\n">>,
      <<"P","O","K","E","D","E","X",":"," ","S","5","\n">>,
      <<"o","P","O","k","e","D","E","*"," ","3","b","\n">>,
      <<"P","O","K","E","D","E","X",":"," ","0","1","1","\n">>,
      <<"P","O","K","E","N","E","X"," ","1"," ","2","\n">>,
      <<"P","O","K","E","D","E","X",":"," ","1","2","3","4","\n">>,
      <<"M","O","N","E","Y"," ","$","1","2","0","0","\n">>>>

\* fragments for extract_time: a labelled time, a labelled time of 75
\* minutes, bare digits:digits tokens (75 minutes, a good one, 0 hours, three
\* digits of hours), and noise
TimeFrags ==
    <<<<"T","I","M","E"," ","3",":","0","7","\n">>,
      <<"T","I","N","E",":"," ","7",":","7","5","\n">>,
      <<"1","2",":","7","5"," ">>,
      <<"2",":","1","5"," ">>,
      <<"0",":","4","5","\n">>,
      <<"1","2","3",":","5","9","\n">>,
      <<"M","O","N","E","Y"," ","$","1","2","0","0","\n">>>>

\* the parts of a card text: names, filler after the name, times, filler
\* after the time, registry counts
CardFrags ==
    <<<<"N","A","M","E",":"," ","A","S","H">>,
      <<"N","A","M","E",":"," ","Z","A","C"," ","2",".","0">>,
      <<"N","a","m","e",":","M","A","T","T">>,
      <<"\n",".",".","."," ">>,
      <<"\n">>,
      <<"\n","M","O","N","E","Y"," ","$","1","2","0","0","\n">>,
      <<"\n","I","D","N","o",".","1","2","3","4","5","\n">>,
      <<"T","I","M","E",":"," ","2",":","1","5">>,
      <<"T","I","M","E"," ","1","2",":","0","7">>,
      <<" ",".",".","."," ">>,
      <<"\n">>,
      <<"P","O","K","E","D","E","X",":"," ","0","1","1">>,
      <<"P","O","K","é","D","E","X"," ","2","5">>>>

\* what one OCR pass may transcribe from the card region
OcrLines ==
    <<<<"T","R","A","I","N","E","R"," ","C","A","R","D">>,
      <<"N","A","M","E",":"," ","A","S","H","\n","B","A","D","G","E","S"," ">>,
      <<"T","I","M","E"," ","3",":","0","7">>,
      <<"P","O","K","E","D","E","X",":"," ","2","5">>,
      <<"M","O","N","E","Y"," ","$","1","2","0","0">>>>

\* the slot statistics of the strips: kinds of slot by their pixel statistics
SlotKinds ==
    {[sat |-> 120, std |-> 5,  min |-> 180, mean |-> 210],
     [sat |-> 80,  std |-> 25, min |-> 120, mean |-> 190],
     [sat |-> 80,  std |-> 25, min |-> 90,  mean |-> 190],
     [sat |-> 80,  std |-> 25, min |-> 60,  mean |-> 190],
     [sat |-> 60,  std |-> 25, min |-> 60,  mean |-> 190],
     [sat |-> 60,  std |-> 25, min |-> 60,  mean |-> 170],
     [sat |-> 30,  std |-> 25, min |-> 60,  mean |-> 140]}

\* an empty slot (green background) and a drawn badge
EmptySlot == [sat |-> 120, std |-> 5, min |-> 180, mean |-> 210]

FilledSlot == [sat |-> 30, std |-> 25, min |-> 60, mean |-> 140]

MaxRuns == 3

\* the strips made of at most MaxRuns runs of equal slots
RunStrips ==
    {[i \in 1..NumSlots |-> ks[1 + Cardinality({c \in cuts : c < i})]] :
        cuts \in {x \in SUBSET (1..(NumSlots - 1)) : Cardinality(x) < MaxRuns},
        ks \in [1..MaxRuns -> SlotKinds]}

\* three leading slots of any kind, equal slots after them, and one slot of
\* any kind (an artifact) in the seventh place
ArtifactStrips ==
    {[i \in 1..NumSlots |->
        IF i <= 3 THEN lead[i] ELSE IF i = 7 THEN artifact ELSE rest] :
        lead \in [1..3 -> SlotKinds], rest \in SlotKinds, artifact \in SlotKinds}

\* two leading slots that score 2 or 4, four slots of any kind, and two
\* slots that score 0 at the end
BoundaryStrips ==
    {[i \in 1..NumSlots |->
        IF i <= 2 THEN lead[i] ELSE IF i <= 6 THEN mid[i - 2]
        ELSE [sat |-> 80, std |-> 25, min |-> 120, mean |-> 190]] :
        lead \in [1..2 -> {k \in SlotKinds : k.min = 60 /\ k.mean = 190}],
        mid \in [1..4 -> SlotKinds]}

\* a strip with n drawn badges
Badges(n) == [i \in 1..NumSlots |-> IF i <= n THEN FilledSlot ELSE EmptySlot]

NumOcrMethods == 4

\* the images parse_trainer_card is given: whether cv2.imread decodes the
\* file, the size, the boxes of the largest green and bright contours, the
\* statistics of the badge strip, and the transcription of each OCR method
Scenes ==
    {[w |-> 240,  h |-> 160,  green |-> NoRegion, bright |-> NoRegion,
      inner |-> NoRegion, strip |-> Badges(0)],
     [w |-> 640,  h |-> 480,  green |-> <<40, 30, 480, 320>>,
      bright |-> NoRegion, inner |-> NoRegion, strip |-> Badges(3)],
     [w |-> 2000, h |-> 1500, green |-> <<0, 0, 90, 60>>,
      bright |-> <<100, 100, 1600, 1000>>, inner |-> <<20, 20, 1500, 900>>,
      strip |-> Badges(8)]}

Unreadable ==
    [decodable |-> FALSE, w |-> 0, h |-> 0, green |-> NoRegion,
     bright |-> NoRegion, inner |-> NoRegion, strip |-> <<>>, ocr |-> <<>>]

Images ==
    {Unreadable} \cup
    {[decodable |-> TRUE, w |-> g.w, h |-> g.h, green |-> g.green,
      bright |-> g.bright, inner |-> g.inner, strip |-> g.strip, ocr |-> o] :
        g \in Scenes, o \in [1..NumOcrMethods -> 1..Len(OcrLines)]}

(***************************************************************************)
(* parse_trainer_card, one action for each stage                           *)
(***************************************************************************)
NoResult == <<>>

\* TrainerCardParser(): the two OCR configurations
TrainerCardParser ==
    [tesseract_config |-> "--psm 7 --oem 3",
     tesseract_config_multiline |-> "--psm 6 --oem 3"]

\* TrainerDataStore() with no data file: no user, no processed message
TrainerDataStore == [users |-> <<>>, processed_messages |-> <<>>]

\* RosemaryBot(channel_id), not connected yet.  history is the position of the
\* process_channel_history task, runs counts the tasks created, after and
\* messages are the task's locals, and handling gives the position of the
\* on_message call of each message
RosemaryBot ==
    [processing_history |-> FALSE, history |-> "none", runs |-> 0,
     after |-> 0, messages |-> <<>>, handling |-> <<>>]

\* the objects as constructed, nothing posted and no call made
Constructed ==
    /\ parser = TrainerCardParser
    /\ store = TrainerDataStore
    /\ bot = RosemaryBot
    /\ channel = <<>>
    /\ log = <<>>
    /\ disk = [data_file |-> TrainerDataStore, temp |-> {}]

Init ==
    /\ pc = "load"
    /\ image \in Images
    /\ text = <<>>
    /\ scores = <<>>
    /\ region = NoRegion
    /\ result = NoResult
    /\ ret = NoResult
    /\ outcome = "none"
    /\ Constructed

\* image = cv2.imread(image_path); a file that does not decode ends the call
LoadImage ==
    /\ pc = "load"
    /\ IF image.decodable
       THEN pc' = "find_region" /\ UNCHANGED outcome
       ELSE pc' = "done" /\ outcome' = "LoadFailure"
    /\ UNCHANGED <<parser, others, image, text, scores, region, result, ret>>

\* the detected region, or the whole image
FindRegion ==
    /\ pc = "find_region"
    /\ region' = IF find_trainer_card_region(image) = NoRegion
                 THEN <<0, 0, image.w, image.h>>
                 ELSE find_trainer_card_region(image)
    /\ pc' = "ocr"
    /\ UNCHANGED <<parser, others, image, text, scores, result, ret, outcome>>

\* '\n'.join(all_text)
RECURSIVE JoinLines(_)
JoinLines(lines) ==
    IF lines = <<>> THEN <<>>
    ELSE IF Len(lines) = 1 THEN lines[1]
    ELSE lines[1] \o <<"\n">> \o JoinLines(Tail(lines))

\* extract_text_multimethod: the four transcriptions, joined
extract_text_multimethod(img) ==
    JoinLines([m \in 1..NumOcrMethods |-> OcrLines[img.ocr[m]]])

ExtractText ==
    /\ pc = "ocr"
    /\ text' = extract_text_multimethod(image)
    /\ pc' = "validate"
    /\ UNCHANGED <<parser, others, image, scores, region, result, ret, outcome>>

\* the gate with its answer ignored
ValidateIgnored ==
    /\ pc = "validate"
    /\ pc' = "name"
    /\ UNCHANGED <<parser, others, image, text, scores, region, result, ret,
                   outcome>>

\* the gate: a rejected text ends the call
Validate ==
    /\ pc = "validate"
    /\ IF validate_trainer_card(text)
       THEN pc' = "name" /\ UNCHANGED outcome
       ELSE pc' = "done" /\ outcome' = "NotACard"
    /\ UNCHANGED <<parser, others, image, text, scores, region, result, ret>>

ExtractName ==
    /\ pc = "name"
    /\ result' = [name |-> extract_name(text)]
    /\ pc' = "badges"
    /\ UNCHANGED <<parser, others, image, text, scores, region, ret, outcome>>

CountBadges ==
    /\ pc = "badges"
    /\ scores' = BadgeScores(image, region)
    /\ result' = [name |-> result.name,
                  badges |-> count_badges(image, region)]
    /\ pc' = "time"
    /\ UNCHANGED <<parser, others, image, text, region, ret, outcome>>

ExtractTime ==
    /\ pc = "time"
    /\ result' = [name |-> result.name, badges |-> result.badges,
                  time |-> extract_time(text)]
    /\ pc' = "pokedex"
    /\ UNCHANGED <<parser, others, image, text, scores, region, ret, outcome>>

ExtractPokedex ==
    /\ pc = "pokedex"
    /\ result' = [name |-> result.name, badges |-> result.badges,
                  time |-> result.time, pokedex |-> extract_pokedex(text)]
    /\ pc' = "check"
    /\ UNCHANGED <<parser, others, image, text, scores, region, ret, outcome>>

\* a call that fails only when both fields are missing
BothCriticalFieldsMissing(res) == res.name = UNKNOWN /\ res.time = NoTime

\* result['name'] == "UNKNOWN" or result['time'] == "0:00"
CriticalFieldMissing(res) == res.name = UNKNOWN \/ res.time = NoTime

\* the last check: the result is returned, or the call fails
CheckFields ==
    /\ pc = "check"
    /\ IF CriticalFieldMissing(result)
       THEN outcome' = "IncompleteExtraction" /\ UNCHANGED ret
       ELSE outcome' = "ParsedCard" /\ ret' = result
    /\ pc' = "done"
    /\ UNCHANGED <<parser, others, image, text, scores, region, result>>

Next ==
    \/ LoadImage
    \/ FindRegion
    \/ ExtractText
    \/ Validate
    \/ ExtractName
    \/ CountBadges
    \/ ExtractTime
    \/ ExtractPokedex
    \/ CheckFields

Spec == Init /\ [][Next]_vars

(***************************************************************************)
(* parse_trainer_card called again and again                               *)
(***************************************************************************)
MaxCalls == 3

\* a file that does not decode, a screenshot that is no card, a card with
\* no time read, and the same readable card in two framings
RepeatImages ==
    {Unreadable} \cup
    {[decodable |-> TRUE, w |-> g.w, h |-> g.h, green |-> g.green,
      bright |-> g.bright, inner |-> g.inner, strip |-> g.strip, ocr |-> o] :
        g \in {x \in Scenes : x.w = 640},
        o \in {<<5, 5, 5, 5>>, <<1, 2, 4, 5>>, <<1, 2, 3, 4>>}} \cup
    {[decodable |-> TRUE, w |-> g.w, h |-> g.h, green |-> g.green,
      bright |-> g.bright, inner |-> g.inner, strip |-> g.strip,
      ocr |-> <<1, 2, 3, 4>>] : g \in {x \in Scenes : x.w = 2000}}

\* the next call with the value returned by the last call left in place
NextCallKeepingReturn ==
    /\ pc = "done"
    /\ Len(log) < MaxCalls
    /\ log' = Append(log, [image |-> image, outcome |-> outcome, ret |-> ret])
    /\ parser' = TrainerCardParser
    /\ image' \in RepeatImages
    /\ pc' = "load"
    /\ text' = <<>>
    /\ scores' = <<>>
    /\ region' = NoRegion
    /\ result' = NoResult
    /\ outcome' = "none"
    /\ UNCHANGED <<ret, store, bot, channel, disk>>

\* the call is over, its outcome is noted, and parse_trainer_card is called
\* on another image: a new parser and a new frame
NextCall ==
    /\ pc = "done"
    /\ Len(log) < MaxCalls
    /\ log' = Append(log, [image |-> image, outcome |-> outcome, ret |-> ret])
    /\ parser' = TrainerCardParser
    /\ image' \in RepeatImages
    /\ pc' = "load"
    /\ text' = <<>>
    /\ scores' = <<>>
    /\ region' = NoRegion
    /\ result' = NoResult
    /\ ret' = NoResult
    /\ outcome' = "none"
    /\ UNCHANGED <<store, bot, channel, disk>>

InitRepeat ==
    /\ pc = "load"
    /\ image \in RepeatImages
    /\ text = <<>>
    /\ scores = <<>>
    /\ region = NoRegion
    /\ result = NoResult
    /\ ret = NoResult
    /\ outcome = "none"
    /\ Constructed

NextRepeat == Next \/ NextCall

SpecRepeat == InitRepeat /\ [][NextRepeat]_vars

(***************************************************************************)
(* The functions called on their own                                       *)
(***************************************************************************)
\* the state before a call on the fused text of the fragments ids of table
CallOn(table, ids) ==
    /\ pc = "call"
    /\ image = [frags |-> ids]
    /\ text = Concat(table, ids)
    /\ scores = <<>>
    /\ region = NoRegion
    /\ result = NoResult
    /\ ret = NoResult
    /\ outcome = "none"
    /\ Constructed

Return(fn, value) ==
    /\ pc = "call"
    /\ pc' = "returned"
    /\ ret' = [fn |-> fn, value |-> value]

CallValidate ==
    /\ Return("validate_trainer_card", validate_trainer_card(text))
    /\ UNCHANGED <<parser, others, image, text, scores, region, result, outcome>>

CallExtractName ==
    /\ Return("extract_name", extract_name(text))
    /\ UNCHANGED <<parser, others, image, text, scores, region, result, outcome>>

CallExtractTime ==
    /\ Return("extract_time", extract_time(text))
    /\ UNCHANGED <<parser, others, image, text, scores, region, result, outcome>>

CallExtractPokedex ==
    /\ Return("extract_pokedex", extract_pokedex(text))
    /\ UNCHANGED <<parser, others, image, text, scores, region, result, outcome>>

CallCountBadges ==
    /\ Return("count_badges", count_badges(image, region))
    /\ scores' = BadgeScores(image, region)
    /\ UNCHANGED <<parser, others, image, text, region, result, outcome>>

\* validate_trainer_card on every text of at most MaxFrags fragments
InitValidate ==
    \E ids \in SeqsUpTo(Len(ValidateFrags), MaxFrags) : CallOn(ValidateFrags, ids)

SpecValidate == InitValidate /\ [][CallValidate]_vars

\* extract_pokedex on every text of at most MaxFrags fragments
InitPokedex ==
    \E ids \in SeqsUpTo(Len(PokedexFrags), MaxFrags) : CallOn(PokedexFrags, ids)

SpecPokedex == InitPokedex /\ [][CallExtractPokedex]_vars

\* extract_time on every text of at most MaxFrags fragments
InitTime ==
    \E ids \in SeqsUpTo(Len(TimeFrags), MaxFrags) : CallOn(TimeFrags, ids)

SpecTime == InitTime /\ [][CallExtractTime]_vars

\* fragments for the corrupted transcription of the time: the catalogued one,
\* another text after the label that begins with st, a labelled time, a bare
\* time, and noise; none of them reads 5:49
StiheFrags ==
    <<<<"T","I","M","E"," ","s","t","i","h","e","\n">>,
      <<"T","I","M","E"," ","s","t"," ","3",":","0","7","\n">>,
      <<"T","I","M","E"," ","3",":","0","7","\n">>,
      <<"2",":","1","5"," ">>,
      <<"M","O","N","E","Y"," ","$","1","2","0","0","\n">>>>

\* extract_time on every text of at most MaxFrags of these fragments
InitStihe ==
    \E ids \in SeqsUpTo(Len(StiheFrags), MaxFrags) : CallOn(StiheFrags, ids)

SpecStihe == InitStihe /\ [][CallExtractTime]_vars

\* fragments for the blocklist of extract_name: the label, two names, words
\* of the blocklist in several spellings, and a character that ends the
\* captured group
NameFrags ==
    <<<<"N","A","M","E",":"," ">>,
      <<"A","S","H"," ">>,
      <<"I","D","N","o"," ">>,
      <<"M","o","n","e","y"," ">>,
      <<"G","A","R","Y"," ">>,
      <<"i","d"," ">>,
      <<"T","T","\n">>,
      <<"$">>>>

\* extract_name on every text of at most MaxFrags of these fragments
InitName ==
    \E ids \in SeqsUpTo(Len(NameFrags), MaxFrags) : CallOn(NameFrags, ids)

SpecName == InitName /\ [][CallExtractName]_vars

\* fragments for the sentinels: a labelled time of no hours and no minutes,
\* a labelled time of too many minutes, a labelled time, a bare time of no
\* hours, a name that reads as the sentinel, a name, and a label followed by
\* a word of the blocklist
SentinelFrags ==
    <<<<"T","I","M","E"," ","0",":","0","0","\n">>,
      <<"T","I","M","E",":"," ","7",":","7","5","\n">>,
      <<"T","I","M","E"," ","3",":","0","7","\n">>,
      <<"0",":","4","5"," ">>,
      <<"N","A","M","E",":"," ","U","N","K","N","O","W","N","\n">>,
      <<"N","A","M","E",":"," ","A","S","H","\n">>,
      <<"N","A","M","E",":"," ","T","I","M","E","\n">>>>

\* extract_name and extract_time on every text of at most MaxFrags of these
InitSentinel ==
    \E ids \in SeqsUpTo(Len(SentinelFrags), MaxFrags) : CallOn(SentinelFrags, ids)

SpecSentinel == InitSentinel /\ [][CallExtractName \/ CallExtractTime]_vars

\* the decimal digits of a number, at least width of them
RECURSIVE Decimal(_, _)
Decimal(n, width) ==
    IF n < 10 /\ width <= 1 THEN <<DigitChars[n + 1]>>
    ELSE Decimal(n \div 10, width - 1) \o <<DigitChars[(n % 10) + 1]>>

\* a digit run with a space between the digits
RECURSIVE Spaced(_)
Spaced(digits) ==
    IF Len(digits) <= 1 THEN digits
    ELSE <<Head(digits), " ">> \o Spaced(Tail(digits))

\* extract_pokedex on a registry label followed by the digits of a count in
\* 0..999: as they are, padded with zeros to three digits, or spaced out
InitDigits ==
    \E label \in {<<"P","O","K","E","D","E","X",":"," ">>,
                   <<"P","O","K","é","D","E","X"," ">>,
                   <<"P","o","K","e","N","E","X",":"," ">>},
       value \in 0..MaxPokedex, form \in 1..3 :
        /\ pc = "call"
        /\ image = [label |-> label, value |-> value, form |-> form]
        /\ text = label \o (CASE form = 1 -> Decimal(value, 1)
                               [] form = 2 -> Decimal(value, 3)
                               [] form = 3 -> Spaced(Decimal(value, 1)))
                        \o <<"\n">>
        /\ scores = <<>>
        /\ region = NoRegion
        /\ result = NoResult
        /\ ret = NoResult
        /\ outcome = "none"
        /\ Constructed

SpecDigits == InitDigits /\ [][CallExtractPokedex]_vars

\* what an OCR method may transcribe: a labelled name, a labelled time, a
\* labelled time of 75 minutes, a name label before another label, noise,
\* nothing
Transcripts ==
    <<<<"N","A","M","E",":"," ","A","S","H">>,
      <<"T","I","M","E"," ","3",":","0","7">>,
      <<"T","I","M","E",":"," ","7",":","7","5">>,
      <<"N","A","M","E",":"," ","T","I","M","E">>,
      <<"M","O","N","E","Y"," ","$","1","2","0","0">>,
      <<>>>>

\* the extractors on the four transcriptions of an image, joined as
\* extract_text_multimethod joins them
InitFused ==
    \E ids \in [1..NumOcrMethods -> 1..Len(Transcripts)] :
        /\ pc = "call"
        /\ image = [frags |-> ids]
        /\ text = JoinLines([m \in 1..NumOcrMethods |-> Transcripts[ids[m]]])
        /\ scores = <<>>
        /\ region = NoRegion
        /\ result = NoResult
        /\ ret = NoResult
        /\ outcome = "none"
        /\ Constructed

SpecFused == InitFused /\ [][CallExtractName \/ CallExtractTime]_vars

\* the card texts: a name (fragments 1 to 3), filler (4 to 7), a time (8, 9),
\* filler (10, 11), a registry count (12, 13)
InitCard ==
    \E n \in 1..3, f \in 4..7, t \in 8..9, g \in 10..11, d \in 12..13 :
        CallOn(CardFrags, <<n, f, t, g, d>>)

NextCard == CallExtractName \/ CallExtractTime \/ CallExtractPokedex

SpecCard == InitCard /\ [][NextCard]_vars

\* count_badges on every strip of the two families
InitBadges ==
    /\ pc = "call"
    /\ \/ image \in {[w |-> 240, h |-> 160, inner |-> NoRegion, strip |-> s] :
                       s \in RunStrips \cup ArtifactStrips}
       \/ image \in {[w |-> 240, h |-> 160, inner |-> NoRegion, strip |-> s] :
                       s \in BoundaryStrips}
    /\ text = <<>>
    /\ scores = <<>>
    /\ region = <<0, 0, 240, 160>>
    /\ result = NoResult
    /\ ret = NoResult
    /\ outcome = "none"
    /\ Constructed

SpecBadges == InitBadges /\ [][CallCountBadges]_vars

\* count_badges on images of several sizes, with and without a bright area
\* inside the card, showing no, three or eight badges or eight slots that
\* score 0, with the whole image or a box as the card region
InitGeometry ==
    /\ pc = "call"
    /\ image \in
          {[w |-> size[1], h |-> size[2], inner |-> inner, strip |-> strip] :
              size \in {<<240, 160>>, <<20, 160>>, <<240, 120>>, <<100, 100>>,
                        <<640, 480>>, <<2000, 1500>>},
              inner \in {NoRegion, <<10, 10, 300, 200>>, <<0, 0, 50, 200>>,
                         <<100, 100, 1600, 1000>>},
              strip \in {Badges(0), Badges(3), Badges(8),
                         [i \in 1..NumSlots |->
                            [sat |-> 80, std |-> 25, min |-> 120,
                             mean |-> 190]]}}
    /\ region \in {<<0, 0, image.w, image.h>>, <<40, 30, 480, 320>>,
                    <<0, 0, 90, 60>>, <<200, 140, 240, 160>>,
                    <<10, 20, 210, 155>>, <<0, 0, 150, 110>>}
    /\ region[1] + region[3] <= image.w
    /\ region[2] + region[4] <= image.h
    /\ IF image.inner = NoRegion THEN TRUE
       ELSE /\ image.inner[1] + image.inner[3] <= region[3]
            /\ image.inner[2] + image.inner[4] <= region[4]
    /\ text = <<>>
    /\ scores = <<>>
    /\ result = NoResult
    /\ ret = NoResult
    /\ outcome = "none"
    /\ Constructed

SpecGeometry == InitGeometry /\ [][CallCountBadges]_vars

\* the region stage of parse_trainer_card on images of several sizes whose
\* largest green and bright contours have boxes on both sides of each gate
\* (a box lies inside its image)
InitRegion ==
    /\ pc = "find_region"
    /\ image \in
          {[decodable |-> TRUE, w |-> size[1], h |-> size[2],
            green |-> green, bright |-> bright] :
              size \in {<<240, 160>>, <<1500, 800>>, <<1501, 700>>,
                        <<1400, 801>>, <<2000, 1500>>},
              green \in {NoRegion, <<0, 0, 240, 160>>, <<0, 0, 240, 200>>,
                         <<0, 0, 600, 200>>, <<0, 0, 101, 101>>,
                         <<0, 0, 150, 101>>, <<0, 0, 150, 100>>,
                         <<0, 0, 90, 60>>, <<5, 5, 1, 0>>},
              bright \in {NoRegion, <<0, 0, 1400, 1000>>, <<0, 0, 1401, 1000>>,
                          <<0, 0, 2000, 1000>>, <<0, 0, 1400, 701>>,
                          <<0, 0, 800, 500>>, <<0, 0, 500, 300>>,
                          <<0, 0, 501, 301>>, <<0, 0, 801, 500>>,
                          <<0, 0, 1200, 700>>}}
    /\ \A box \in {image.green, image.bright} \ {NoRegion} :
          box[1] + box[3] <= image.w /\ box[2] + box[4] <= image.h
    /\ text = <<>>
    /\ scores = <<>>
    /\ region = NoRegion
    /\ result = NoResult
    /\ ret = NoResult
    /\ outcome = "none"
    /\ Constructed

SpecRegion == InitRegion /\ [][FindRegion]_vars

(***************************************************************************)
(* TrainerDataStore.  A datetime is [day, us]: a day of January 2024 and   *)
(* the microseconds past 10:00:00 on it.  The store keeps timestamps as    *)
(* ISO strings and compares them as strings.                               *)
(***************************************************************************)
\* no message_timestamp given
None == [day |-> 0, us |-> 0]

\* datetime.isoformat(): the fraction is left out when it is zero
isoformat(dt) ==
    <<"2","0","2","4","-","0","1","-">> \o Decimal(dt.day, 2)
        \o <<"T","1","0",":","0","0",":","0","0">>
        \o (IF dt.us = 0 THEN <<>> ELSE <<".">> \o Decimal(dt.us, 6))

\* the characters of an ISO string in code point order
IsoChars == <<"-", ".">> \o DigitChars \o <<":", "T">>

\* a > b with a string ordered below its proper prefixes
RECURSIVE StrGreaterShortFirst(_, _)
StrGreaterShortFirst(a, b) ==
    IF b = <<>> THEN FALSE
    ELSE IF a = <<>> THEN TRUE
    ELSE IF Head(a) = Head(b) THEN StrGreaterShortFirst(Tail(a), Tail(b))
    ELSE (CHOOSE i \in 1..Len(IsoChars) : IsoChars[i] = Head(a))
            > (CHOOSE i \in 1..Len(IsoChars) : IsoChars[i] = Head(b))

\* a > b for Python strings: the first difference decides, by code point; a
\* string is greater than each of its proper prefixes
RECURSIVE StrGreater(_, _)
StrGreater(a, b) ==
    IF a = <<>> THEN FALSE
    ELSE IF b = <<>> THEN TRUE
    ELSE IF Head(a) = Head(b) THEN StrGreater(Tail(a), Tail(b))
    ELSE (CHOOSE i \in 1..Len(IsoChars) : IsoChars[i] = Head(a))
            > (CHOOSE i \in 1..Len(IsoChars) : IsoChars[i] = Head(b))

\* d with key k set to v
Put(d, k, v) == [x \in DOMAIN d \cup {k} |-> IF x = k THEN v ELSE d[x]]

\* record_trainer_card with a record as new as the stored one replacing it
record_trainer_card_or_equal(data, user_id, trainer_name, badges, time, pokedex, timestamp_str) ==
    LET known == user_id \in DOMAIN data.users
        user0 == IF known THEN data.users[user_id]
                 ELSE [trainer_name |-> trainer_name, badge_records |-> <<>>,
                       last_updated |-> <<>>]
        user_data == IF trainer_name # <<>>
                     THEN [user0 EXCEPT !.trainer_name = trainer_name]
                     ELSE user0
        record == [time |-> time, pokedex |-> pokedex,
                   timestamp |-> timestamp_str]
        update == ~(badges \in DOMAIN user_data.badge_records)
                  \/ ~StrGreater(user_data.badge_records[badges].timestamp,
                                 timestamp_str)
        stored == IF update
                  THEN [user_data EXCEPT
                          !.badge_records = Put(@, badges, record),
                          !.last_updated = timestamp_str]
                  ELSE user_data
    IN  [data |-> [data EXCEPT !.users = Put(@, user_id, stored)],
         returned |-> update]

\* record_trainer_card: self.data after the call and the value returned.  A
\* user not seen before is added; a name that is not empty replaces the
\* stored one; the record of the badge count is written when there is none
\* or when the new timestamp string is greater than the stored one
record_trainer_card(data, user_id, trainer_name, badges, time, pokedex, timestamp_str) ==
    LET known == user_id \in DOMAIN data.users
        user0 == IF known THEN data.users[user_id]
                 ELSE [trainer_name |-> trainer_name, badge_records |-> <<>>,
                       last_updated |-> <<>>]
        user_data == IF trainer_name # <<>>
                     THEN [user0 EXCEPT !.trainer_name = trainer_name]
                     ELSE user0
        record == [time |-> time, pokedex |-> pokedex,
                   timestamp |-> timestamp_str]
        update == ~(badges \in DOMAIN user_data.badge_records)
                  \/ user_data.badge_records[badges].timestamp = <<>>
                  \/ StrGreater(timestamp_str,
                                user_data.badge_records[badges].timestamp)
        stored == IF update
                  THEN [user_data EXCEPT
                          !.badge_records = Put(@, badges, record),
                          !.last_updated = timestamp_str]
                  ELSE user_data
    IN  [data |-> [data EXCEPT !.users = Put(@, user_id, stored)],
         returned |-> update]

\* _save_data: json.dump writes self.data to the JSON file
_save_data(files, data) == [files EXCEPT !.data_file = data]

\* the files after a call of record_trainer_card: _save_data runs on the two
\* paths that return True and on no other
SavedRecord(files, call) ==
    IF call.returned THEN _save_data(files, call.data) ELSE files

MaxRecords == 3

\* the datetimes of the messages: with and without a fraction of a second
Timestamps == {[day |-> 1, us |-> 0], [day |-> 1, us |-> 500000],
               [day |-> 2, us |-> 0]}

\* what a card says: name (possibly none), time, registry count
Cards ==
    {[name |-> <<"A","S","H">>, time |-> <<"2",":","1","5">>, pokedex |-> 11],
     [name |-> <<>>, time |-> <<"3",":","0","7">>, pokedex |-> 25]}

\* a call of record_trainer_card for one of the cards, with the clock read
\* when no message_timestamp is given
RecordCall(cards) ==
    /\ pc = "store"
    /\ Len(log) < MaxRecords
    /\ \E user_id \in 1..2, badges \in {0, 3}, card \in cards,
          message_timestamp \in Timestamps \cup {None} :
        \E at \in (IF message_timestamp = None THEN Timestamps
                   ELSE {message_timestamp}) :
          LET call == record_trainer_card(store, user_id, card.name, badges,
                                          card.time, card.pokedex,
                                          isoformat(at))
          IN  /\ store' = call.data
              /\ disk' = SavedRecord(disk, call)
              /\ log' = Append(log, [user |-> user_id, badges |-> badges,
                                     card |-> card, at |-> at,
                                     returned |-> call.returned])
    /\ UNCHANGED <<pc, image, text, scores, region, result, ret, outcome,
                   parser, bot, channel>>

InitStore ==
    /\ pc = "store"
    /\ image = <<>>
    /\ text = <<>>
    /\ scores = <<>>
    /\ region = NoRegion
    /\ result = NoResult
    /\ ret = NoResult
    /\ outcome = "none"
    /\ Constructed

RecordTrainerCard == RecordCall(Cards)

SpecStore == InitStore /\ [][RecordTrainerCard]_vars

(***************************************************************************)
(* RosemaryBot: on_message and process_channel_history on one event loop.  *)
(* A message is [id, image]: ids grow with the time of posting, image says *)
(* whether it carries a screenshot; every screenshot is a readable card of *)
(* user 1.  A task gives way to the others only where the code awaits.     *)
(***************************************************************************)
MaxMessages == 2

\* the times the bot connects
MaxConnects == 2

\* str(message_id) in processed_messages
is_message_processed(data, message_id) ==
    \E i \in 1..Len(data.processed_messages) :
        data.processed_messages[i] = message_id

\* the id is appended when it is not in the list yet
mark_message_processed(data, message_id) ==
    IF is_message_processed(data, message_id) THEN data
    ELSE [data EXCEPT !.processed_messages = Append(@, message_id)]

\* the files after a call of mark_message_processed: _save_data runs when
\* the id is appended
SavedMark(files, data, message_id) ==
    IF is_message_processed(data, message_id) THEN files
    ELSE _save_data(files, mark_message_processed(data, message_id))

\* cards of one trainer read with two names
Renames ==
    {[name |-> <<"A","S","H">>, time |-> <<"2",":","1","5">>, pokedex |-> 11],
     [name |-> <<"A","S","N">>, time |-> <<"2",":","1","5">>, pokedex |-> 11]}

\* a call of record_trainer_card for a card of either name
RecordRenamed == RecordCall(Renames)

\* a call of mark_message_processed
MarkMessageProcessed ==
    /\ pc = "store"
    /\ Len(log) < MaxRecords
    /\ \E message_id \in 1..2 :
          /\ store' = mark_message_processed(store, message_id)
          /\ disk' = SavedMark(disk, store, message_id)
          /\ log' = Append(log, [marked |-> message_id])
    /\ UNCHANGED <<pc, image, text, scores, region, result, ret, outcome,
                   parser, bot, channel>>

SpecFile == InitStore /\ [][RecordRenamed \/ MarkMessageProcessed]_vars

\* the id to resume after, 0 when none was stored
get_last_processed_message(data) ==
    IF "last_processed_message" \in DOMAIN data
    THEN data.last_processed_message
    ELSE 0

\* the id to resume after is stored
update_last_processed_message(data, message_id) ==
    Put(data, "last_processed_message", message_id)

\* message.created_at
CreatedAt(message) == [day |-> message.id, us |-> 0]

\* the card parsed from every screenshot
ParsedCard == [name |-> <<"A","S","H">>, badges |-> 3,
               time |-> <<"2",":","1","5">>, pokedex |-> 11]

\* record_trainer_card for the card of one message
RecordCard(data, message) ==
    record_trainer_card(data, 1, ParsedCard.name, ParsedCard.badges,
                        ParsedCard.time, ParsedCard.pokedex,
                        isoformat(CreatedAt(message))).data

\* the cards of the messages recorded one after the other
RECURSIVE RecordAll(_, _)
RecordAll(data, messages) ==
    IF messages = <<>> THEN data
    ELSE RecordAll(RecordCard(data, Head(messages)), Tail(messages))

\* each message marked and made the one to resume after, in order
RECURSIVE MarkAll(_, _)
MarkAll(data, messages) ==
    IF messages = <<>> THEN data
    ELSE MarkAll(update_last_processed_message(
                     mark_message_processed(data, Head(messages).id),
                     Head(messages).id),
                 Tail(messages))

\* the files after the cards of the messages were recorded
RECURSIVE RecordAllSaved(_, _, _)
RecordAllSaved(files, data, messages) ==
    IF messages = <<>> THEN files
    ELSE RecordAllSaved(
             SavedRecord(files,
                 record_trainer_card(data, 1, ParsedCard.name,
                     ParsedCard.badges, ParsedCard.time, ParsedCard.pokedex,
                     isoformat(CreatedAt(Head(messages))))),
             RecordCard(data, Head(messages)), Tail(messages))

\* the temporary file of the download of a message by a task
TempFile(by, message) == <<by, message.id>>

\* what a task did to each of the messages
Events(by, what, messages) ==
    [i \in 1..Len(messages) |->
        [by |-> by, what |-> what, id |-> messages[i].id]]

\* the messages that carry a screenshot
ImageJobs(messages) == SelectSeq(messages, LAMBDA m : m.image)

\* someone posts a message; a connected bot gets an on_message call for it
Post ==
    /\ pc = "bot"
    /\ Len(channel) < MaxMessages
    /\ \E img \in BOOLEAN :
          channel' = Append(channel, [id |-> Len(channel) + 1, image |-> img])
    /\ bot' = IF bot.history = "none" THEN bot
              ELSE [bot EXCEPT
                      !.handling = Put(@, Len(channel) + 1, "called")]
    /\ UNCHANGED <<pc, image, text, scores, region, result, ret, outcome,
                   parser, store, log, disk>>

\* on_ready: the history task is created unless one is running
on_ready ==
    /\ pc = "bot"
    /\ bot.history \in {"none", "over"}
    /\ bot.runs < MaxConnects
    /\ ~bot.processing_history
    /\ bot' = [bot EXCEPT !.history = "created", !.runs = @ + 1]
    /\ UNCHANGED <<pc, image, text, scores, region, result, ret, outcome,
                   parser, store, channel, log, disk>>

\* process_channel_history up to the first await: the flag is set and the
\* id to resume after is read
HistoryBegin ==
    /\ pc = "bot"
    /\ bot.history = "created"
    /\ bot' = [bot EXCEPT !.processing_history = TRUE,
                          !.after = get_last_processed_message(store),
                          !.history = "fetch"]
    /\ UNCHANGED <<pc, image, text, scores, region, result, ret, outcome,
                   parser, store, channel, log, disk>>

\* the messages after that id are fetched.  With none the task is over; with
\* no screenshot among them they are marked and the task is over; otherwise
\* the screenshots are downloaded and parsed
HistoryFetch ==
    /\ pc = "bot"
    /\ bot.history = "fetch"
    /\ LET messages == SelectSeq(channel, LAMBDA m : m.id > bot.after)
       IN  IF messages = <<>>
           THEN /\ bot' = [bot EXCEPT !.processing_history = FALSE,
                                      !.history = "over"]
                /\ UNCHANGED <<store, log, disk>>
           ELSE IF ImageJobs(messages) = <<>>
           THEN /\ store' = MarkAll(store, messages)
                /\ disk' = _save_data(disk, store')
                /\ log' = log \o Events("history", "marked", messages)
                /\ bot' = [bot EXCEPT !.processing_history = FALSE,
                                      !.history = "over"]
           ELSE /\ bot' = [bot EXCEPT !.messages = messages,
                                      !.history = "parse"]
                /\ UNCHANGED <<store, log, disk>>
    /\ UNCHANGED <<pc, image, text, scores, region, result, ret, outcome,
                   parser, channel>>

\* the batch is downloaded and parsed in the pool, then every result is
\* recorded, up to the sleep between batches
HistoryParse ==
    /\ pc = "bot"
    /\ bot.history = "parse"
    /\ store' = RecordAll(store, ImageJobs(bot.messages))
    /\ disk' = RecordAllSaved(disk, store, ImageJobs(bot.messages))
    /\ log' = log \o Events("history", "parsed", ImageJobs(bot.messages))
                  \o Events("history", "recorded", ImageJobs(bot.messages))
    /\ bot' = [bot EXCEPT !.history = "mark"]
    /\ UNCHANGED <<pc, image, text, scores, region, result, ret, outcome,
                   parser, channel>>

\* every fetched message is marked, and the flag is cleared
HistoryMark ==
    /\ pc = "bot"
    /\ bot.history = "mark"
    /\ store' = MarkAll(store, bot.messages)
    /\ disk' = _save_data(disk, store')
    /\ log' = log \o Events("history", "marked", bot.messages)
    /\ bot' = [bot EXCEPT !.processing_history = FALSE, !.messages = <<>>,
                          !.history = "over"]
    /\ UNCHANGED <<pc, image, text, scores, region, result, ret, outcome,
                   parser, channel>>

\* on_message up to its first await: a processed message is skipped, a
\* message with no screenshot is marked, a screenshot is downloaded and
\* parsed
on_message ==
    /\ pc = "bot"
    /\ \E id \in DOMAIN bot.handling :
          /\ bot.handling[id] = "called"
          /\ IF is_message_processed(store, id)
             THEN /\ bot' = [bot EXCEPT !.handling[id] = "over"]
                  /\ UNCHANGED <<store, log, disk>>
             ELSE IF channel[id].image
             THEN /\ bot' = [bot EXCEPT !.handling[id] = "parse"]
                  /\ log' = log \o Events("on_message", "begun",
                                           <<channel[id]>>)
                  /\ disk' = [disk EXCEPT !.temp =
                                 @ \cup {TempFile("on_message", channel[id])}]
                  /\ UNCHANGED store
             ELSE /\ store' = MarkAll(store, <<channel[id]>>)
                  /\ disk' = _save_data(disk, store')
                  /\ log' = log \o Events("on_message", "begun",
                                           <<channel[id]>>)
                              \o Events("on_message", "marked",
                                        <<channel[id]>>)
                  /\ bot' = [bot EXCEPT !.handling[id] = "over"]
    /\ UNCHANGED <<pc, image, text, scores, region, result, ret, outcome,
                   parser, channel>>

\* _process_image after the parse: the card is recorded, and on_message marks
\* the message
ProcessImage ==
    /\ pc = "bot"
    /\ \E id \in DOMAIN bot.handling :
          /\ bot.handling[id] = "parse"
          /\ store' = MarkAll(RecordCard(store, channel[id]), <<channel[id]>>)
          /\ disk' = [_save_data(disk, store') EXCEPT !.temp =
                         @ \ {TempFile("on_message", channel[id])}]
          /\ log' = log \o Events("on_message", "parsed", <<channel[id]>>)
                        \o Events("on_message", "recorded", <<channel[id]>>)
                        \o Events("on_message", "marked", <<channel[id]>>)
          /\ bot' = [bot EXCEPT !.handling[id] = "over"]
    /\ UNCHANGED <<pc, image, text, scores, region, result, ret, outcome,
                   parser, channel>>

InitBot ==
    /\ pc = "bot"
    /\ image = <<>>
    /\ text = <<>>
    /\ scores = <<>>
    /\ region = NoRegion
    /\ result = NoResult
    /\ ret = NoResult
    /\ outcome = "none"
    /\ Constructed

NextBot ==
    \/ Post
    \/ on_ready
    \/ HistoryBegin
    \/ HistoryFetch
    \/ HistoryParse
    \/ HistoryMark
    \/ on_message
    \/ ProcessImage

SpecBot == InitBot /\ [][NextBot]_vars

\* get_channel finds no channel: the flag is set, cleared again, and the
\* task returns
HistoryNoChannel ==
    /\ pc = "bot"
    /\ bot.history = "created"
    /\ bot' = [bot EXCEPT !.processing_history = FALSE, !.history = "over"]
    /\ UNCHANGED <<pc, image, text, scores, region, result, ret, outcome,
                   parser, store, channel, log, disk>>

\* the call of get_last_processed_message raises: it stands after the flag
\* is set and before the try statement, so the task ends there
HistoryBeginRaises ==
    /\ pc = "bot"
    /\ bot.history = "created"
    /\ bot' = [bot EXCEPT !.processing_history = TRUE, !.history = "over"]
    /\ UNCHANGED <<pc, image, text, scores, region, result, ret, outcome,
                   parser, store, channel, log, disk>>

\* a statement inside the try statement raises: the except clause reports
\* it and the finally clause clears the flag
HistoryRaises ==
    /\ pc = "bot"
    /\ bot.history \in {"fetch", "parse", "mark"}
    /\ bot' = [bot EXCEPT !.processing_history = FALSE, !.messages = <<>>,
                          !.history = "over"]
    /\ UNCHANGED <<pc, image, text, scores, region, result, ret, outcome,
                   parser, store, channel, log, disk>>

\* a statement raises after the batch was downloaded: run_in_executor
\* (k = 0), or the handling of result k, whose finally clause deletes the
\* temporary file of that result.  The results before k were recorded
HistoryBatchRaises ==
    /\ pc = "bot"
    /\ bot.history = "parse"
    /\ LET jobs == ImageJobs(bot.messages)
       IN  \E k \in 0..Len(jobs) :
              LET done == IF k <= 1 THEN <<>> ELSE SubSeq(jobs, 1, k - 1)
              IN  /\ store' = RecordAll(store, done)
                  /\ disk' = [RecordAllSaved(disk, store, done) EXCEPT
                                 !.temp = @ \cup
                                     {TempFile("history", jobs[i]) :
                                          i \in (k + 1)..Len(jobs)}]
                  /\ log' = log \o Events("history", "parsed", done)
                                \o Events("history", "recorded", done)
    /\ bot' = [bot EXCEPT !.processing_history = FALSE, !.messages = <<>>,
                          !.history = "over"]
    /\ UNCHANGED <<pc, image, text, scores, region, result, ret, outcome,
                   parser, channel>>

\* _process_image when the parse or the recording raises: nothing is
\* recorded, the finally clause deletes the temporary file, and on_message
\* marks the message
ProcessImageRaises ==
    /\ pc = "bot"
    /\ \E id \in DOMAIN bot.handling :
          /\ bot.handling[id] = "parse"
          /\ store' = MarkAll(store, <<channel[id]>>)
          /\ disk' = [_save_data(disk, store') EXCEPT !.temp =
                         @ \ {TempFile("on_message", channel[id])}]
          /\ log' = log \o Events("on_message", "marked", <<channel[id]>>)
          /\ bot' = [bot EXCEPT !.handling[id] = "over"]
    /\ UNCHANGED <<pc, image, text, scores, region, result, ret, outcome,
                   parser, channel>>

NextBotRaising ==
    \/ NextBot
    \/ HistoryNoChannel
    \/ HistoryBeginRaises
    \/ HistoryRaises
    \/ HistoryBatchRaises
    \/ ProcessImageRaises

SpecBotRaising == InitBot /\ [][NextBotRaising]_vars

\* C28: after every call of record_trainer_card or mark_message_processed
\* the JSON file holds the data the store holds in memory.
C28_FileEqualsMemory ==
    (pc = "store" /\ log # <<>>) => disk.data_file = store

\* C30: when the history task is over no temporary file of its downloads is
\* left, and when the on_message call of a message is over the temporary
\* file of its download is not left.
C30_TempFilesDeleted ==
    pc = "bot" =>
        /\ bot.history = "over" =>
               \A m \in DOMAIN channel :
                   TempFile("history", channel[m]) \notin disk.temp
        /\ \A id \in DOMAIN bot.handling :
               bot.handling[id] = "over" =>
                   TempFile("on_message", channel[id]) \notin disk.temp

\* C25: whenever process_channel_history has ended, by completion, by an
\* early return or by an exception raised after the flag was set,
\* processing_history is False.
C25_FlagClearedAtEnd ==
    (pc = "bot" /\ bot.history = "over") => ~bot.processing_history

\* the positions in the log of what a task did to a message
Did(by, what, id) ==
    {i \in 1..Len(log) : log[i] = [by |-> by, what |-> what, id |-> id]}

\* processed_messages holds no id twice
MarkedOnce ==
    \A i \in 1..Len(store.processed_messages),
       j \in 1..Len(store.processed_messages) :
        store.processed_messages[i] = store.processed_messages[j] => i = j

\* on_message goes past its test for no message that is marked already
MarkedIsSkipped ==
    \A i \in 1..Len(log), j \in 1..Len(log) :
        (/\ log[i].what = "marked"
         /\ log[j].by = "on_message" /\ log[j].what = "begun"
         /\ log[i].id = log[j].id) => j < i

\* C16: a message is processed at most once: processed_messages never holds
\* an id twice, on_message skips a message that is marked, and no message
\* has its screenshot parsed and recorded both by on_message and by
\* process_channel_history
C16_ProcessedAtMostOnce ==
    pc = "bot" =>
        /\ MarkedOnce
        /\ MarkedIsSkipped
        /\ \A id \in 1..Len(channel) :
              ~(/\ Did("on_message", "recorded", id) # {}
                /\ Did("history", "recorded", id) # {})

(***************************************************************************)
(* The gym tracker listing                                                 *)
(***************************************************************************)
\* the highest badge count recorded for a user, with its time and count
get_latest_badge_for_user(data, user_id) ==
    LET badge_records == data.users[user_id].badge_records
        latest_badge == CHOOSE b \in DOMAIN badge_records :
                            \A c \in DOMAIN badge_records : c <= b
    IN  [discord_user_id |-> user_id,
         trainer_name |-> data.users[user_id].trainer_name,
         badges |-> latest_badge,
         time |-> badge_records[latest_badge].time,
         pokedex |-> badge_records[latest_badge].pokedex]

\* one entry for each user, in the order the users were first recorded
RECURSIVE get_all_trainers_latest(_, _)
get_all_trainers_latest(data, order) ==
    IF order = <<>> THEN <<>>
    ELSE <<get_latest_badge_for_user(data, Head(order))>>
            \o get_all_trainers_latest(data, Tail(order))

\* the key (-badges, time) of a is greater than that of b: the times are
\* compared as strings
KeyGreater(a, b) ==
    \/ a.badges < b.badges
    \/ a.badges = b.badges /\ StrGreater(a.time, b.time)

\* list.sort(key=...): each entry goes after the last entry whose key is not
\* greater than its own (the sort is stable)
RECURSIVE Sorted(_, _)
Sorted(done, todo) ==
    IF todo = <<>> THEN done
    ELSE LET x == Head(todo)
             n == Cardinality({i \in 1..Len(done) : ~KeyGreater(done[i], x)})
         IN  Sorted(SubSeq(done, 1, n) \o <<x>> \o SubSeq(done, n + 1, Len(done)),
                    Tail(todo))

\* the users in the order of their first call
RECURSIVE FirstSeen(_, _)
FirstSeen(calls, seen) ==
    IF calls = <<>> THEN seen
    ELSE FirstSeen(Tail(calls),
                   IF \E i \in 1..Len(seen) : seen[i] = Head(calls).user
                   THEN seen ELSE Append(seen, Head(calls).user))

\* the playtimes on the cards posted
Playtimes == {<<"5",":","4","9">>, <<"1","0",":","4","6">>, <<"9",":","5","9">>}

\* a card is recorded for a user; every message is newer than the last
RecordProgress ==
    /\ pc = "tracker"
    /\ Len(log) < MaxRecords
    /\ \E user_id \in 1..3, badges \in {3, 5}, time \in Playtimes :
          LET at == [day |-> Len(log) + 1, us |-> 0]
              call == record_trainer_card(store, user_id, <<"A","S","H">>,
                                          badges, time, 11, isoformat(at))
          IN  /\ store' = call.data
              /\ disk' = SavedRecord(disk, call)
              /\ log' = Append(log, [user |-> user_id, badges |-> badges,
                                     time |-> time, at |-> at,
                                     returned |-> call.returned])
    /\ UNCHANGED <<pc, image, text, scores, region, result, ret, outcome,
                   parser, bot, channel>>

\* /rosemary-gym-tracker: the trainers sorted for the listing
rosemary_gym_tracker ==
    /\ pc = "tracker"
    /\ ret' = Sorted(<<>>, get_all_trainers_latest(store, FirstSeen(log, <<>>)))
    /\ pc' = "listed"
    /\ UNCHANGED <<image, text, scores, region, result, outcome, parser,
                   others>>

InitTracker ==
    /\ pc = "tracker"
    /\ image = <<>>
    /\ text = <<>>
    /\ scores = <<>>
    /\ region = NoRegion
    /\ result = NoResult
    /\ ret = NoResult
    /\ outcome = "none"
    /\ Constructed

SpecTracker == InitTracker /\ [][RecordProgress \/ rosemary_gym_tracker]_vars

\* the minutes a playtime h:mm stands for
PlayMinutes(t) ==
    LET c == CHOOSE i \in 1..Len(t) : t[i] = ":"
    IN  60 * ToInt(SubSeq(t, 1, c - 1)) + ToInt(SubSeq(t, c + 1, Len(t)))

\* C24: the gym tracker lists the trainers by badge count, highest first,
\* and trainers with the same badge count by playtime, shortest first.
C24_ListedByBadgesThenTime ==
    pc = "listed" =>
        \A i \in 1..Len(ret), j \in 1..Len(ret) :
            i < j =>
                /\ ret[i].badges >= ret[j].badges
                /\ ret[i].badges = ret[j].badges =>
                      PlayMinutes(ret[i].time) <= PlayMinutes(ret[j].time)

\* datetime a is later than datetime b
Later(a, b) == a.day > b.day \/ (a.day = b.day /\ a.us > b.us)

\* the calls made so far for one user and badge count
CallsFor(u, b) ==
    {i \in 1..Len(log) : log[i].user = u /\ log[i].badges = b}

\* C14: after any sequence of record_trainer_card calls, every user and
\* badge count recorded at least once holds the time, registry count and
\* timestamp of the call with the greatest message timestamp, the first
\* such call made when several carry that timestamp
C14_LatestDataWins ==
    pc = "store" =>
        \A u \in 1..2, b \in {0, 3} :
            CallsFor(u, b) # {} =>
                LET w == CHOOSE i \in CallsFor(u, b) :
                             \A j \in CallsFor(u, b) :
                                 /\ ~Later(log[j].at, log[i].at)
                                 /\ j < i => Later(log[i].at, log[j].at)
                IN  /\ u \in DOMAIN store.users
                    /\ b \in DOMAIN store.users[u].badge_records
                    /\ store.users[u].badge_records[b]
                         = [time |-> log[w].card.time,
                            pokedex |-> log[w].card.pokedex,
                            timestamp |-> isoformat(log[w].at)]

\* three calls for one user and badge count: two different cards with the
\* same timestamp, then one a fraction of a second older
C14_Witness ==
    /\ pc = "store"
    /\ Len(log) = 3
    /\ log[1].user = log[2].user /\ log[2].user = log[3].user
    /\ log[1].badges = log[2].badges /\ log[2].badges = log[3].badges
    /\ log[1].at = [day |-> 1, us |-> 500000]
    /\ log[2].at = log[1].at
    /\ log[2].card # log[1].card
    /\ log[3].at = [day |-> 1, us |-> 0]

\* C15: record_trainer_card returns False exactly when the user has a record
\* for the badge count whose timestamp is not older than the new one, and
\* then leaves the user's badge_records and last_updated alone; in every
\* other case it returns True and the record for the badge count is the new
\* data
C15_ReturnTellsUpdate ==
    [][(pc = "store" /\ Len(log') = Len(log) + 1) =>
        LET c == log'[Len(log')]
            had == /\ c.user \in DOMAIN store.users
                   /\ c.badges \in DOMAIN store.users[c.user].badge_records
            notOlder ==
                /\ had
                /\ \E d \in Timestamps :
                      /\ isoformat(d) = store.users[c.user]
                                            .badge_records[c.badges].timestamp
                      /\ ~Later(c.at, d)
        IN  /\ c.returned = ~notOlder
            /\ ~c.returned =>
                  /\ store'.users[c.user].badge_records
                       = store.users[c.user].badge_records
                  /\ store'.users[c.user].last_updated
                       = store.users[c.user].last_updated
            /\ c.returned =>
                  store'.users[c.user].badge_records[c.badges]
                    = [time |-> c.card.time, pokedex |-> c.card.pokedex,
                       timestamp |-> isoformat(c.at)]
    ]_vars

\* a first record for a badge count, older than the user's other record, is
\* accepted, and a later call for it with the same timestamp is turned down
C15_Witness ==
    /\ pc = "store"
    /\ Len(log) = 3
    /\ log[1].user = log[2].user /\ log[2].user = log[3].user
    /\ log[2].badges # log[1].badges
    /\ Later(log[1].at, log[2].at)
    /\ log[2].returned
    /\ log[3].badges = log[2].badges
    /\ log[3].at = log[2].at
    /\ ~log[3].returned

(***************************************************************************)
(* Properties of parse_trainer_card                                        *)
(***************************************************************************)
AllFields == {"name", "badges", "time", "pokedex"}

\* C1: parse_trainer_card returns a result only when the validator accepted
\* the fused text and neither extract_name returned "UNKNOWN" nor
\* extract_time returned "0:00"; the returned result has all four fields;
\* when either sentinel is produced the call fails as an incomplete
\* extraction, whatever the badge count and the registry count are; a
\* registry count of 0 alone does not fail the call.
C1_NoPartialResult ==
    pc = "done" /\ image.decodable =>
        /\ outcome = "ParsedCard" =>
              /\ validate_trainer_card(text)
              /\ extract_name(text) # UNKNOWN
              /\ extract_time(text) # NoTime
              /\ DOMAIN ret = AllFields
              /\ ret.name = extract_name(text)
              /\ ret.time = extract_time(text)
              /\ ret.pokedex = extract_pokedex(text)
              /\ ret.badges = count_badges(image, region)
        /\ outcome # "ParsedCard" => ret = NoResult
        /\ validate_trainer_card(text) =>
              IF extract_name(text) = UNKNOWN \/ extract_time(text) = NoTime
              THEN outcome = "IncompleteExtraction"
              ELSE outcome = "ParsedCard"

\* a call that fails on the time sentinel alone, the name, the badge count
\* and the registry count having been read
C1_Witness ==
    /\ pc = "done"
    /\ outcome = "IncompleteExtraction"
    /\ result.name # UNKNOWN
    /\ result.time = NoTime
    /\ result.badges > 0
    /\ result.pokedex > 0

\* C2: an image that decodes and whose fused text the validator rejects ends
\* in the NotACard failure, the gate having run before any field extraction
\* or badge counting; the load failure is raised exactly when the image does
\* not decode, before any other stage has run.
C2_GateBeforeExtraction ==
    /\ pc = "done" /\ image.decodable /\ ~validate_trainer_card(text) =>
          /\ outcome = "NotACard"
          /\ result = NoResult
          /\ scores = <<>>
          /\ ret = NoResult
    /\ pc = "done" /\ ~image.decodable =>
          /\ outcome = "LoadFailure"
          /\ region = NoRegion
          /\ text = <<>>
          /\ result = NoResult
          /\ scores = <<>>
    /\ outcome = "LoadFailure" => ~image.decodable
    /\ outcome = "NotACard" => image.decodable

\* a decoded image whose text (two field labels, no header) is rejected
C2_Witness ==
    /\ pc = "done"
    /\ image.decodable
    /\ outcome = "NotACard"
    /\ Search(name_indicator, text).found
    /\ Search(badges_indicator, text).found

\* C12: a region found by the colour pass has 1.2 < w/h < 3.0, w > 100 and
\* h > 100; one found by the brightness pass has 1.4 < w/h < 2.0, w > 800 and
\* h > 300, and that pass is reached only when the colour pass accepted
\* nothing and the image is wider than 1500 or taller than 800; in every
\* other case nothing is found and the caller takes the whole image.
C12_RegionPassesGate ==
    pc = "ocr" =>
        LET g == image.green
            b == image.bright
            colour == /\ g # NoRegion
                      /\ 12 * g[4] < 10 * g[3] /\ g[3] < 3 * g[4]
                      /\ g[3] > 100 /\ g[4] > 100
            large == image.w > 1500 \/ image.h > 800
            brightness == /\ b # NoRegion
                          /\ 14 * b[4] < 10 * b[3] /\ b[3] < 2 * b[4]
                          /\ b[3] > 800 /\ b[4] > 300
        IN  /\ colour => region = g
            /\ ~colour /\ large /\ brightness => region = b
            /\ ~colour /\ ~(large /\ brightness) =>
                  region = <<0, 0, image.w, image.h>>

\* an image 1500 wide and 800 high whose bright contour would pass the
\* brightness gate: the pass is not tried and the whole image is taken
C12_Witness ==
    /\ pc = "ocr"
    /\ image.w = 1500 /\ image.h = 800
    /\ image.green = <<0, 0, 240, 200>>
    /\ image.bright = <<0, 0, 1200, 700>>
    /\ region = <<0, 0, 1500, 800>>

Returned(fn) == pc = "returned" /\ ret.fn = fn

\* C3: the registry count returned by extract_pokedex is in 0..999, also
\* when a special-case rule such as the vertical-bar rule produces it.
C3_RegistryCountInRange ==
    Returned("extract_pokedex") => ret.value \in 0..MaxPokedex

(***************************************************************************)
(* Properties of count_badges                                              *)
(***************************************************************************)
\* the first n slots score s, the others score at most 0
FilledThenEmpty(vs, n, s) ==
    /\ \A i \in 1..n : vs[i] = s
    /\ \A i \in (n + 1)..NumSlots : vs[i] <= 0

\* C4 as stated: for a strip whose first N slots share one positive score
\* and whose other slots score at most 0, count_badges returns N.
C4_PrefixOfPositiveScores ==
    Returned("count_badges") =>
        \A n \in 0..NumSlots, s \in 1..12 :
            FilledThenEmpty(scores, n, s) => ret.value = n

\* C4 amended: for a strip whose first N slots share one score of at least 2
\* (the least pass threshold) and whose other slots score at most 0,
\* count_badges returns N, for every N in 0..8.
C4_PrefixOfPassingScores ==
    Returned("count_badges") =>
        \A n \in 0..NumSlots, s \in 2..12 :
            FilledThenEmpty(scores, n, s) => ret.value = n

\* five slots scoring exactly the pass threshold 2, three empty, counted 5
C4_Witness ==
    /\ Returned("count_badges")
    /\ FilledThenEmpty(scores, 5, 2)
    /\ ret.value = 5

\* C5: count_badges never counts past a gap: the count is at most the number
\* of slots before the first slot whose score is not positive.
C5_NoCountPastGap ==
    Returned("count_badges") =>
        \A i \in 1..NumSlots : scores[i] <= 0 => ret.value <= i - 1

\* two slots counted, a gap, and later slots that score high
C5_Witness ==
    /\ Returned("count_badges")
    /\ ret.value = 2
    /\ scores[3] <= 0
    /\ \A i \in 4..NumSlots : scores[i] >= 5

\* the strip without the artifact of the seventh slot
WithoutArtifact(vs) == [vs EXCEPT ![7] = vs[8]]

\* slots 1 to 3 filled, the others empty but for a positive seventh slot
ArtifactStrip(vs) ==
    /\ \A i \in 1..3 : vs[i] > 0
    /\ \A i \in {4, 5, 6, 8} : vs[i] <= 0
    /\ vs[7] > 0

\* C6: with slots 0-2 filled, slots 3-7 empty and a high score injected into
\* slot 6, count_badges returns 3, as it does without the artifact, for every
\* choice of filled-slot scores for which the artifact-free strip yields 3.
C6_ArtifactChangesNothing ==
    Returned("count_badges") =>
        (ArtifactStrip(scores) /\ CountFromScores(WithoutArtifact(scores)) = 3
            => ret.value = 3)

\* C20: whenever the moderate-drop rule stops the scan at slot i (the slot
\* passes the threshold, scores at least 2 less than slot i-1, is not the
\* last, and the mean of the scores after it is not positive), every slot
\* after i has a score that is not positive.
C20_ModerateDropLeavesNothing ==
    Returned("count_badges") =>
        \A i \in 2..(NumSlots - 1) :
            /\ ret.value = i
            /\ scores[i] >= Threshold(Max(scores))
            /\ scores[i - 1] - scores[i] >= 2
            /\ Sum(SubSeq(scores, i + 1, NumSlots)) <= 0
            => \A j \in (i + 1)..NumSlots : scores[j] <= 0

\* slot k is accepted by the tests made before the moderate-drop rule
SlotPasses(vs, k) ==
    /\ vs[k] > 0
    /\ vs[k] >= Threshold(Max(vs))
    /\ k > 1 => vs[k - 1] - vs[k] < 3

\* the moderate-drop rule applies at slot k: not the first, not the last, a
\* drop of at least 2, and later scores whose mean is not positive
RuleApplies(vs, k) ==
    /\ 1 < k /\ k < Len(vs)
    /\ vs[k - 1] - vs[k] >= 2
    /\ Sum(SubSeq(vs, k + 1, Len(vs))) <= 0

\* the scan comes to slot k: every slot before it was counted and the rule
\* applied at none of them
ScanReaches(vs, k) ==
    \A j \in 1..(k - 1) : SlotPasses(vs, j) /\ ~RuleApplies(vs, j)

\* C21: when the scan comes to a slot that is neither the first nor the last,
\* that passes the threshold, scores exactly 2 less than the slot before it
\* and is followed by scores whose mean is exactly 0, the slot is counted
\* and the scan stops after it.  The moderate-drop rule never rejects the
\* slot it is applied at, and it is not applied at the last slot: a last
\* slot that passes is counted whatever its drop below 3.
C21_BoundaryOfModerateDrop ==
    Returned("count_badges") =>
        /\ \A k \in 2..(NumSlots - 1) :
              (/\ scores[k - 1] - scores[k] = 2
               /\ Sum(SubSeq(scores, k + 1, NumSlots)) = 0
               /\ SlotPasses(scores, k)
               /\ ScanReaches(scores, k))
              => ret.value = k
        /\ \A k \in 2..(NumSlots - 1) :
              (/\ RuleApplies(scores, k)
               /\ SlotPasses(scores, k)
               /\ ScanReaches(scores, k))
              => ret.value = k
        /\ (SlotPasses(scores, NumSlots) /\ ScanReaches(scores, NumSlots))
              => ret.value = NumSlots

\* the rule at its boundary with a positive score after the slot
C21_Witness ==
    /\ Returned("count_badges")
    /\ \E k \in 2..(NumSlots - 1) :
          /\ ScanReaches(scores, k)
          /\ SlotPasses(scores, k)
          /\ scores[k - 1] - scores[k] = 2
          /\ Sum(SubSeq(scores, k + 1, NumSlots)) = 0
          /\ scores[k + 1] >= Threshold(Max(scores))
          /\ ret.value = k

\* C22: count_badges takes the badge strip from the region the caller gives:
\* rows +131..+147 and columns +17..+225 of it exactly when it is at most 250
\* wide and 170 high, otherwise rows 0.86..0.94 of its height and columns
\* 0.07..0.93 of its width; it puts no other region in its place.
C22_StripFromGivenRegion ==
    Returned("count_badges") =>
        LET b == BadgeRegion(image, region)
        IN  IF region[3] <= 250 /\ region[4] <= 170
            THEN /\ b.y_start = region[2] + 131
                 /\ b.y_end = region[2] + 147
                 /\ b.x_start = region[1] + 17
                 /\ b.x_end = region[1] + 225
            ELSE /\ b.y_start = region[2] + Scaled(region[4], 86)
                 /\ b.y_end = region[2] + Scaled(region[4], 94)
                 /\ b.x_start = region[1] + Scaled(region[3], 7)
                 /\ b.x_end = region[1] + Scaled(region[3], 93)

\* C29: the badge strip lies inside the region given to count_badges, and so
\* inside the image, for every region find_trainer_card_region can return
\* and for the whole image.
C29_StripInsideRegion ==
    (/\ Returned("count_badges")
     /\ region[1] + region[3] <= image.w
     /\ region[2] + region[4] <= image.h
     /\ \/ region = <<0, 0, image.w, image.h>>
        \/ ColourGate(region)
        \/ BrightGate(region)) =>
        LET b == BadgeRegion(image, region)
        IN  /\ region[2] <= b.y_start /\ b.y_start <= b.y_end
            /\ b.y_end <= region[2] + region[4]
            /\ region[1] <= b.x_start /\ b.x_start <= b.x_end
            /\ b.x_end <= region[1] + region[3]

\* C17: count_badges returns a count in 0..8 for every image and region, and
\* 0 whenever the badge strip is empty or narrower than 8 pixels, all eight
\* slot scores are 0, or the greatest slot score is not positive.
C17_CountInRange ==
    Returned("count_badges") =>
        LET badge_region == BadgeRegion(image, region)
            vs == SlotScores(image.strip)
        IN  /\ ret.value \in 0..NumSlots
            /\ \/ badge_region.rows * badge_region.cols = 0
               \/ badge_region.cols < NumSlots
               \/ \A i \in 1..NumSlots : vs[i] = 0
               \/ \A i \in 1..NumSlots : vs[i] <= 0
               => ret.value = 0

\* a strip of three pixel columns that shows three drawn badges: 0 counted
C17_Witness ==
    /\ Returned("count_badges")
    /\ BadgeRegion(image, region).rows > 0
    /\ BadgeRegion(image, region).cols \in 1..(NumSlots - 1)
    /\ image.strip = Badges(3)
    /\ ret.value = 0

(***************************************************************************)
(* Properties of validate_trainer_card                                     *)
(***************************************************************************)
\* the fragments of ValidateFrags that hold a header in a tolerant spelling
HeaderFrags == 1..4

\* the field a fragment of ValidateFrags labels (0: none)
LabelOf(id) ==
    CASE id = 6 -> 1
      [] id = 7 -> 2
      [] id \in {8, 9} -> 3
      [] id = 10 -> 4
      [] OTHER -> 0

HasHeader(ids) == \E i \in 1..Len(ids) : ids[i] \in HeaderFrags

\* the number of different fields labelled in the fragments
LabelsIn(ids) == Cardinality({LabelOf(ids[i]) : i \in 1..Len(ids)} \ {0})

\* C7: validate_trainer_card returns true for every text that contains the
\* header in one of its tolerant spellings, whatever else the text contains.
C7_HeaderAccepted ==
    Returned("validate_trainer_card") /\ HasHeader(image.frags) => ret.value

\* a header (the CHRD misread) between noise, with no field label at all
C7_Witness ==
    /\ Returned("validate_trainer_card")
    /\ image.frags = <<11, 3, 11>>
    /\ ret.value

\* C8: without a header, validate_trainer_card returns true exactly when at
\* least 3 of the 4 fields are labelled in the text; a label counts once
\* however often it occurs.
C8_ThreeOfFourLabels ==
    Returned("validate_trainer_card") /\ ~HasHeader(image.frags) =>
        (ret.value <=> LabelsIn(image.frags) >= 3)

\* three labels of two fields (TIME and its TINE misread, NAME): rejected
C8_Witness ==
    /\ Returned("validate_trainer_card")
    /\ image.frags = <<8, 9, 6>>
    /\ ~ret.value

(***************************************************************************)
(* Properties of the field extractors                                      *)
(***************************************************************************)
\* what the parts of a card text say
CardName(id) ==
    CASE id = 1 -> <<"A","S","H">>
      [] id = 2 -> <<"Z","A","C"," ","2",".","0">>
      [] id = 3 -> <<"M","A","T","T">>

CardTime(id) ==
    CASE id = 8 -> <<"2",":","1","5">>
      [] id = 9 -> <<"1","2",":","0","7">>

CardDex(id) == CASE id = 12 -> 11 [] id = 13 -> 25

\* C9: on a card text (a NAME label and a name, filler on the following
\* line, a TIME label and H:MM, filler, a POKEDEX label and a number)
\* extract_name returns exactly the name, extract_time the time and
\* extract_pokedex the number.
C9_RoundTrip ==
    /\ Returned("extract_name") => ret.value = CardName(image.frags[1])
    /\ Returned("extract_time") => ret.value = CardTime(image.frags[3])
    /\ Returned("extract_pokedex") => ret.value = CardDex(image.frags[5])

\* the time a bare token among the fragments of TimeFrags reads (minutes
\* under 60, hours under 1000)
BareTime(id) ==
    CASE id = 4 -> <<"2",":","1","5">>
      [] id = 5 -> <<"0",":","4","5">>
      [] id = 6 -> <<"1","2","3",":","5","9">>

\* C13: when no labelled pattern gives a time and the text holds a bare
\* digits:digits token with minutes under 60 and hours under 1000,
\* extract_time returns such a token and not "0:00", whichever place the
\* token has among the bare tokens of the text.
C13_FallbackFindsToken ==
    Returned("extract_time") =>
        LET ids == image.frags
            bare == {i \in 1..Len(ids) : ids[i] \in 4..6}
        IN  (\A i \in 1..Len(ids) : ids[i] # 1) /\ bare # {} =>
                ret.value \in {BareTime(ids[i]) : i \in bare}

\* C26: no word of the name extract_name returns is a word of the blocklist,
\* whatever the case of its letters.
C26_NoBlocklistedWord ==
    Returned("extract_name") =>
        \A i \in 1..Len(Split(ret.value)) :
            \A g \in garbage_words : UpperStr(Split(ret.value)[i]) # UpperStr(g)

\* a labelled pattern matched t and its groups passed the test of the bounds
LabelledTimeRead(t) ==
    \E i \in 1..Len(time_patterns) :
        LET m == Search(time_patterns[i], t)
        IN  /\ m.found
            /\ ToInt(Group(m, t, 2)) < MaxMinutes
            /\ ToInt(Group(m, t, 1)) < MaxHours

\* the fallback pattern matched t and its groups passed the test of the bounds
BareTimeRead(t) ==
    LET m == Search(fallback_pattern, t)
    IN  /\ m.found
        /\ ToInt(Group(m, t, 2)) < MaxMinutes
        /\ 0 < ToInt(Group(m, t, 1))
        /\ ToInt(Group(m, t, 1)) < MaxHours

\* a label pattern matched t and the cleaned name of its group is not empty
NameRead(t) ==
    \E i \in 1..Len(name_patterns) :
        LET m == Search(name_patterns[i], t)
        IN  m.found /\ CleanName(Group(m, t, 1)) # <<>>

\* C27: extract_time returns "0:00" only when neither the corrupted label,
\* nor a labelled pattern, nor the fallback gave a time that passed the test
\* of the bounds, and extract_name returns "UNKNOWN" only when no label
\* pattern gave a cleaned name that is not empty.
C27_SentinelOnlyWhenNothingRead ==
    /\ (Returned("extract_time") /\ ret.value = NoTime) =>
           /\ ~Contains(text, <<"T","I","M","E"," ","s","t">>)
           /\ ~LabelledTimeRead(text)
           /\ ~BareTimeRead(text)
    /\ (Returned("extract_name") /\ ret.value = UNKNOWN) => ~NameRead(text)

\* C23: extract_time returns "5:49" for every text that holds the catalogued
\* corrupted transcription "TIME stihe", whatever valid time the text also
\* holds, and for no text that does not hold it (no text here reads 5:49).
C23_OnlyCataloguedCorruption ==
    Returned("extract_time") =>
        (ret.value = KnownBadTime
            <=> Contains(text, <<"T","I","M","E"," ","s","t","i","h","e">>))

\* C18: for a registry label followed by a run of digits, optionally
\* separated by whitespace, whose value v is in 0..999, extract_pokedex
\* returns v: no special-case rule alters a cleanly read digit run.
C18_CleanDigitsReadBack ==
    Returned("extract_pokedex") => ret.value = image.value

\* C19: when one of the four transcriptions holds a labelled, valid name
\* (or time), extract_name (or extract_time) returns a value other than
\* the sentinel, whatever the other transcriptions hold and whichever place
\* the good transcription has among the four.
C19_RedundancyHelps ==
    LET ids == image.frags
    IN  /\ Returned("extract_name") /\ (\E m \in 1..NumOcrMethods : ids[m] = 1)
            => ret.value # UNKNOWN
        /\ Returned("extract_time") /\ (\E m \in 1..NumOcrMethods : ids[m] = 2)
            => ret.value # NoTime

\* the rule of the cascade a fragment of PokedexFrags is written for
\* (1 bars, 2 bracket, 3 letter and digit, 4 5/S pair, 5 three-six,
\* 6 general digits, 7 none)
RuleOf(id) ==
    CASE id \in 1..3 -> 1
      [] id = 4 -> 2
      [] id = 5 -> 3
      [] id = 6 -> 4
      [] id = 7 -> 5
      [] id \in 8..10 -> 6
      [] OTHER -> 7

\* the count that rule gives for the fragment
ValueOf(id) ==
    CASE id = 1 -> 11
      [] id = 2 -> 111
      [] id = 3 -> 1111
      [] id = 4 -> 11
      [] id = 5 -> 49
      [] id = 6 -> 55
      [] id = 7 -> 36
      [] id = 8 -> 11
      [] id = 9 -> 12
      [] id = 10 -> 1234
      [] OTHER -> 0

\* the highest-priority rule among the fragments
TopRule(ids) ==
    IF ids = <<>> THEN 7
    ELSE CHOOSE r \in 1..7 :
            /\ \E i \in 1..Len(ids) : RuleOf(ids[i]) = r
            /\ \A i \in 1..Len(ids) : RuleOf(ids[i]) >= r

\* the counts the fragments of rule r give
ValuesOf(ids, r) == {ValueOf(ids[i]) : i \in {j \in 1..Len(ids) : RuleOf(ids[j]) = r}}

special_patterns ==
    <<bar_pattern, bracket_pattern, a_pattern, s_pattern, three_six_pattern>>

\* C10: the result comes from the highest-priority rule that matches
\* anywhere in the text, wherever each match lies (a general match whose
\* number is over 999 gives no value); and on a text of one label
\* occurrence at most one special-case rule matches.
C10_PriorityOrder ==
    Returned("extract_pokedex") =>
        LET ids == image.frags
            top == TopRule(ids)
        IN  /\ top <= 5 => ret.value \in ValuesOf(ids, top)
            /\ top = 6 =>
                  \/ ret.value \in {v \in ValuesOf(ids, 6) : v <= MaxPokedex}
                  \/ ret.value = 0 /\ \E v \in ValuesOf(ids, 6) : v > MaxPokedex
            /\ top = 7 => ret.value = 0
            /\ Len(ids) = 1 =>
                  Cardinality({k \in 1..Len(special_patterns) :
                                  Search(special_patterns[k], text).found}) <= 1

\* general digits first, three bars last: the bar rule gives 111
C10_Witness ==
    /\ Returned("extract_pokedex")
    /\ image.frags = <<8, 5, 2>>
    /\ ret.value = 111

====
